---- MODULE Spec2Model ----
(***************************************************************************)
(* Dependency inference engine of the Azure resource graph generator       *)
(* (azure_resources_graph/arg/azure_resource_graph.py).                    *)
(*                                                                         *)
(* Python strings are TLA+ strings; JSON documents are tagged records      *)
(*   [t |-> "str",  v |-> "text"]      a string                            *)
(*   [t |-> "null", v |-> ""]          None                                *)
(*   [t |-> "list", v |-> <<...>>]     a list of documents                 *)
(*   [t |-> "dict", v |-> <<...>>]     a dict: pairs <<key, document>> in  *)
(*                                     insertion order, keys unique        *)
(***************************************************************************)
EXTENDS Integers, Sequences, FiniteSets, TLC

VARIABLES
    resources,               \* the catalog handed to get_resource_dependencies
    pc,                      \* position inside get_resource_dependencies
    idx,                     \* index of the resource the main loop is at
    confirmed_dependencies,  \* dict id -> set of ids (local of the run)
    potential_dependencies,  \* dict id -> set of ids (local of the run)
    _failed_operations_log,  \* the module-global diagnostic log
    run,                     \* 1 for the first call, 2 for the repeated call
    first_result,            \* what the first call returned, kept by the caller
    lookups,                 \* registry look-ups answered so far: <<id, answer>>
    subscription_id,         \* main: the subscription id
    resource_groups,         \* main: the resource-group records
    include_potential_deps,  \* main: args.potential_deps
    main_data,               \* main: the dict `data` that is saved
    data_file,               \* main: the JSON text in <output>.json, "" before it is written
    data_from_output,        \* main: the document loaded from <output>.json
    html,                    \* main: the nodes and links written to <output>.html, none before
    mermaid,                 \* main: the lines of the diagram in <output>.md
    enhanced_mode,           \* list_resources: its argument enhanced_mode
    basic_resources,         \* list_resources: what list_resources_basic returned
    enhanced_resources,      \* list_resources: the records enhanced so far
    detailed_resources,      \* generate_report: dict id -> details
    resource_lookup,         \* generate_dependency_report: dict id -> resource
    max_retries,             \* retry_with_backoff: its argument max_retries
    initial_delay,           \* retry_with_backoff: its argument initial_delay
    backoff_factor,          \* retry_with_backoff: its argument backoff_factor
    attempt,                 \* wrapper: the loop variable i
    delay,                   \* wrapper: the delay before the next retry
    slept,                   \* wrapper: the arguments of the calls of time.sleep
    invoked,                 \* wrapper: the number of calls of func so far
    attempt_result,          \* wrapper: how the latest call of func ended
    wrapper_result,          \* wrapper: how the call of the wrapper ended
    input_file,              \* transform: the document in the file <source>.json
    input_data,              \* transform: the document as loaded, which transform_resources edits
    transformed,             \* transform_resources: the nested dict it builds
    raised,                  \* the exception that ended the call, "" when none did
    all_results,             \* run_az_command: the rows gathered so far
    skip_token,              \* run_az_command: the token of the next page, None at first
    pages,                   \* the commands run_az_command issued so far, each with what it answered
    self_resources,          \* builder: self.resources, its entries in the order of the dict
    dependencies             \* builder: self.dependencies, resource id -> set of ids

\* the variables of main outside get_resource_dependencies
main_vars == <<subscription_id, resource_groups, include_potential_deps,
               main_data, data_file, data_from_output, html, mermaid>>

\* the variables of list_resources
list_vars == <<enhanced_mode, basic_resources, enhanced_resources>>

\* the variables of the companion tools
report_vars == <<detailed_resources, resource_lookup>>

\* the variables of a call of a function wrapped by retry_with_backoff
retry_vars == <<max_retries, initial_delay, backoff_factor, attempt, delay, slept,
                invoked, attempt_result, wrapper_result>>

\* the variables of transform.py
transform_vars == <<input_file, input_data, transformed, raised>>

\* the variables of run_az_command
paging_vars == <<all_results, skip_token, pages>>

\* the variables of AzureResourceGraphBuilder
builder_vars == <<self_resources, dependencies>>

\* the variables of the companion tools and of the az command wrappers
tool_vars == <<report_vars, retry_vars, transform_vars, paging_vars,
               builder_vars>>

vars == <<resources, pc, idx, confirmed_dependencies, potential_dependencies,
          _failed_operations_log, run, first_result, lookups, main_vars, list_vars,
          tool_vars>>

-----------------------------------------------------------------------------
(* Python str operations *)

\* `sub in s` for two str
Contains(sub, s) ==
    \E i \in 0..(Len(s) - Len(sub)) : SubSeq(s, i + 1, i + Len(sub)) = sub

LowerChar(c) ==
    CASE c = "A" -> "a" [] c = "B" -> "b" [] c = "C" -> "c" [] c = "D" -> "d"
      [] c = "E" -> "e" [] c = "F" -> "f" [] c = "G" -> "g" [] c = "H" -> "h"
      [] c = "I" -> "i" [] c = "J" -> "j" [] c = "K" -> "k" [] c = "L" -> "l"
      [] c = "M" -> "m" [] c = "N" -> "n" [] c = "O" -> "o" [] c = "P" -> "p"
      [] c = "Q" -> "q" [] c = "R" -> "r" [] c = "S" -> "s" [] c = "T" -> "t"
      [] c = "U" -> "u" [] c = "V" -> "v" [] c = "W" -> "w" [] c = "X" -> "x"
      [] c = "Y" -> "y" [] c = "Z" -> "z" [] OTHER -> c

UpperChar(c) ==
    CASE c = "a" -> "A" [] c = "b" -> "B" [] c = "c" -> "C" [] c = "d" -> "D"
      [] c = "e" -> "E" [] c = "f" -> "F" [] c = "g" -> "G" [] c = "h" -> "H"
      [] c = "i" -> "I" [] c = "j" -> "J" [] c = "k" -> "K" [] c = "l" -> "L"
      [] c = "m" -> "M" [] c = "n" -> "N" [] c = "o" -> "O" [] c = "p" -> "P"
      [] c = "q" -> "Q" [] c = "r" -> "R" [] c = "s" -> "S" [] c = "t" -> "T"
      [] c = "u" -> "U" [] c = "v" -> "V" [] c = "w" -> "W" [] c = "x" -> "X"
      [] c = "y" -> "Y" [] c = "z" -> "Z" [] OTHER -> c

\* a character-wise translation of s: each character c becomes f[c] when c
\* is in the domain of f and stays otherwise (halving keeps the recursion flat)
RECURSIVE MapChars(_, _)
MapChars(f, s) ==
    IF Len(s) = 0 THEN ""
    ELSE IF Len(s) = 1 THEN (IF s \in DOMAIN f THEN f[s] ELSE s)
    ELSE MapChars(f, SubSeq(s, 1, Len(s) \div 2))
         \o MapChars(f, SubSeq(s, Len(s) \div 2 + 1, Len(s)))

Letters ==
    {"a", "b", "c", "d", "e", "f", "g", "h", "i", "j", "k", "l", "m",
     "n", "o", "p", "q", "r", "s", "t", "u", "v", "w", "x", "y", "z"}

\* str.lower()
Lower(s) == MapChars([c \in {UpperChar(l) : l \in Letters} |-> LowerChar(c)], s)

\* str.upper()
Upper(s) == MapChars([c \in Letters |-> UpperChar(c)], s)

\* s.replace('-', '')
StripHyphens(s) == MapChars([c \in {"-"} |-> ""], s)

RECURSIVE Split(_)
\* s.split('/')
Split(s) ==
    IF Len(s) = 0 THEN <<"">>
    ELSE IF Len(s) = 1 THEN (IF s = "/" THEN <<"", "">> ELSE <<s>>)
    ELSE LET left == Split(SubSeq(s, 1, Len(s) \div 2))
             right == Split(SubSeq(s, Len(s) \div 2 + 1, Len(s)))
         IN  SubSeq(left, 1, Len(left) - 1)
             \o <<left[Len(left)] \o right[1]>>
             \o Tail(right)

RECURSIVE Join(_)
\* '/'.join(parts)
Join(parts) ==
    IF Len(parts) = 0 THEN ""
    ELSE IF Len(parts) = 1 THEN parts[1]
    ELSE parts[1] \o "/" \o Join(Tail(parts))

-----------------------------------------------------------------------------
(* JSON documents and the Python operations the engine applies to them *)

Str(s) == [t |-> "str", v |-> s]
Null == [t |-> "null", v |-> ""]
List(items) == [t |-> "list", v |-> items]
Dict(pairs) == [t |-> "dict", v |-> pairs]
EmptyDict == Dict(<<>>)
EmptyList == List(<<>>)

IsStr(d) == d.t = "str"
IsDict(d) == d.t = "dict"
IsList(d) == d.t = "list"

\* bool(d)
Truthy(d) ==
    CASE d.t = "null" -> FALSE
      [] d.t = "str" -> d.v # ""
      [] OTHER -> Len(d.v) > 0

\* `key in d` for a dict d
HasKey(d, key) == \E i \in 1..Len(d.v) : d.v[i][1] = key

\* d.get(key, default) for a dict d
Get(d, key, default) ==
    IF HasKey(d, key)
    THEN d.v[CHOOSE i \in 1..Len(d.v) : d.v[i][1] = key][2]
    ELSE default

\* d.get(key) for a dict d
GetOrNone(d, key) == Get(d, key, Null)

\* `key in d` for any document d: key test on a dict, substring test on a
\* str, membership on a list; None raises TypeError
InRaises(d) == d.t = "null"
In(key, d) ==
    CASE d.t = "dict" -> HasKey(d, key)
      [] d.t = "str" -> Contains(key, d.v)
      [] d.t = "list" -> \E i \in 1..Len(d.v) : IsStr(d.v[i]) /\ d.v[i].v = key
      [] OTHER -> FALSE

\* the body of a JSON string literal as json.dumps writes it
Escape(s) == MapChars([c \in {"\"", "\\"} |-> "\\" \o c], s)

RECURSIVE Dumps(_)
RECURSIVE DumpItems(_, _)
\* the elements of a list or dict from position i on, separated by ", "
DumpItems(d, i) ==
    IF i > Len(d.v) THEN ""
    ELSE (IF i > 1 THEN ", " ELSE "")
         \o (IF d.t = "dict"
             THEN "\"" \o Escape(d.v[i][1]) \o "\": " \o Dumps(d.v[i][2])
             ELSE Dumps(d.v[i]))
         \o DumpItems(d, i + 1)

\* json.dumps(d)
Dumps(d) ==
    CASE d.t = "null" -> "null"
      [] d.t = "str" -> "\"" \o Escape(d.v) \o "\""
      [] d.t = "list" -> "[" \o DumpItems(d, 1) \o "]"
      [] OTHER -> "{" \o DumpItems(d, 1) \o "}"

-----------------------------------------------------------------------------
(* What one piece of get_resource_dependencies contributes: the targets it  *)
(* adds to the current resource's confirmed and potential sets, the entries *)
(* it appends to the log, and whether it raises (an exception that nothing  *)
(* in get_resource_dependencies catches ends the call without a result).    *)

\* Python None as a member of a dependency set
None == "None"

Nothing == [err |-> FALSE, conf |-> {}, pot |-> {}, log |-> <<>>]
Raise == [err |-> TRUE, conf |-> {}, pot |-> {}, log |-> <<>>]

\* a variant of Conf that files the ids under the potential targets
ConfMisfiled(ids) == [err |-> FALSE, conf |-> {}, pot |-> ids, log |-> <<>>]

\* a statement that adds ids to the confirmed / the potential targets
Conf(ids) == [err |-> FALSE, conf |-> ids, pot |-> {}, log |-> <<>>]
Pot(ids) == [err |-> FALSE, conf |-> {}, pot |-> ids, log |-> <<>>]

\* log_failure(message) as a contribution
log_failure(message) ==
    [err |-> FALSE, conf |-> {}, pot |-> {}, log |-> <<message>>]

\* statement a followed by statement b
Then(a, b) ==
    IF a.err THEN a
    ELSE [err |-> b.err, conf |-> a.conf \cup b.conf,
          pot |-> a.pot \cup b.pot, log |-> a.log \o b.log]

RECURSIVE ThenAll(_)
\* the statements of a sequence, in order (a for loop's iterations)
ThenAll(rs) ==
    IF Len(rs) = 0 THEN Nothing ELSE Then(Head(rs), ThenAll(Tail(rs)))

\* resource.get('id'), .get('type'), .get('name', ''), .get('kind', ''):
\* in the catalogs of this model these fields are a str, None or absent
IdOf(r) == GetOrNone(r, "id")
TypeOf(r) == GetOrNone(r, "type")
NameOf(r) == Get(r, "name", Str(""))
KindOf(r) == Get(r, "kind", Str(""))

\* potential_dep.get('type') == ty
TypeIs(r, ty) == IsStr(TypeOf(r)) /\ TypeOf(r).v = ty

\* potential_dep.get('type') in types
TypeIn(r, types) == IsStr(TypeOf(r)) /\ TypeOf(r).v \in types

\* the value set.add(d) puts into a dependency set, for a str or None
Member(d) == IF IsStr(d) THEN d.v ELSE None

\* x.add(value) for a JSON value: a list or dict is unhashable (TypeError)
AddValue(d) == IF d.t \in {"list", "dict"} THEN Raise ELSE Conf({Member(d)})

\* a variant of DepIds that adds the names of the resources
DepNames(res, K) ==
    IF \E k \in K : ~HasKey(res[k], "id") THEN {}
    ELSE {Member(NameOf(res[k])) : k \in K}

\* for k in K: deps.add(resources[k]['id']) -- KeyError when 'id' is absent
DepIds(res, K) ==
    IF \E k \in K : ~HasKey(res[k], "id") THEN {}
    ELSE {Member(IdOf(res[k])) : k \in K}
DepIdsRaise(res, K) == \E k \in K : ~HasKey(res[k], "id")
AddConfirmed(res, K) == IF DepIdsRaise(res, K) THEN Raise ELSE Conf(DepIds(res, K))
AddPotential(res, K) == IF DepIdsRaise(res, K) THEN Raise ELSE Pot(DepIds(res, K))

\* the values of a dict that are str
StrValues(d) == {d.v[i][2].v : i \in {j \in 1..Len(d.v) : IsStr(d.v[j][2])}}

\* the resources whose type is in types and whose name occurs in text:
\*   potential_x.get('type') in types and potential_x.get('name')
\*   and potential_x['name'] in text
NamedIn(res, types, text) ==
    {k \in 1..Len(res) : /\ TypeIn(res[k], types)
                         /\ Truthy(NameOf(res[k]))
                         /\ Contains(NameOf(res[k]).v, text)}

\* the resources whose type is in types
OfType(res, types) == {k \in 1..Len(res) : TypeIn(res[k], types)}

-----------------------------------------------------------------------------
(* get_resource_dependencies, lines 1190-1256: the phases every resource    *)
(* with an id and a type goes through                                       *)

Properties(r) == Get(r, "properties", EmptyDict)
EnvVars(r) == Get(r, "environmentVariables", EmptyDict)
NetworkInfo(r) == Get(r, "networkInfo", EmptyDict)
SpecificConfig(r) == Get(r, "specificConfiguration", EmptyDict)

\* all_resource_data, lines 1203-1208
AllResourceData(r) ==
    Dumps(Dict(<< <<"properties", Properties(r)>>,
                  <<"environmentVariables", EnvVars(r)>>,
                  <<"specificConfiguration", SpecificConfig(r)>>,
                  <<"networkInfo", NetworkInfo(r)>> >>))

\* a variant of GlobalIdContainment that looks at the resources listed
\* before r only
GlobalIdContainmentOfEarlier(res, r) ==
    LET data == AllResourceData(r)
        self == CHOOSE k \in 1..Len(res) : res[k] = r
    IN  Conf({IdOf(res[k]).v : k \in
               {j \in 1..(self - 1) : /\ Truthy(IdOf(res[j]))
                                      /\ IdOf(res[j]).v # IdOf(r).v
                                      /\ Contains(IdOf(res[j]).v, data)}})

\* lines 1210-1213: ids of other resources found in the serialized blob
GlobalIdContainment(res, r) ==
    LET data == AllResourceData(r)
    IN  Conf({IdOf(res[k]).v : k \in
               {j \in 1..Len(res) : /\ Truthy(IdOf(res[j]))
                                    /\ IdOf(res[j]).v # IdOf(r).v
                                    /\ Contains(IdOf(res[j]).v, data)}})

\* a variant of NameInSetting without the test of the value
NameLongEnough(name, value) == Truthy(name) /\ Len(name.v) > 3

\* lines 1224-1230 and 1239-1245: a name longer than 3 characters that
\* occurs in the value, or occurs once hyphens are removed from both
NameInSetting(name, value) ==
    /\ Truthy(name) /\ Len(name.v) > 3
    /\ \/ Contains(name.v, value)
       \/ Contains(StripHyphens(name.v), StripHyphens(value))

\* a variant of ScanSettings that stops at the first resource found
ScanSettingsFirstMatch(res, settings) ==
    IF ~IsDict(settings) THEN Raise
    ELSE LET found == {k \in 1..Len(res) :
                         \E value \in StrValues(settings) :
                            NameInSetting(NameOf(res[k]), value)}
         IN  AddPotential(res, {k \in found : \A j \in found : k <= j})

\* lines 1218-1230 (appSettings) and 1233-1245 (connectionStrings):
\* settings.items() raises AttributeError when settings is not a dict
ScanSettings(res, settings) ==
    IF ~IsDict(settings) THEN Raise
    ELSE AddPotential(res,
           {k \in 1..Len(res) :
              \E value \in StrValues(settings) :
                 NameInSetting(NameOf(res[k]), value)})

\* lines 1216-1245: env_vars.get raises AttributeError on a non-dict
ScanEnvVars(res, r) ==
    LET env_vars == EnvVars(r)
    IN  IF ~Truthy(env_vars) THEN Nothing
        ELSE IF ~IsDict(env_vars) THEN Raise
        ELSE Then(ScanSettings(res, Get(env_vars, "appSettings", EmptyDict)),
                  ScanSettings(res, Get(env_vars, "connectionStrings", EmptyDict)))

\* line 1252: value_str of a networkInfo value that is a str or a list
ValueStr(value) == IF IsList(value) THEN Dumps(value) ELSE value.v

\* lines 1247-1256: network_info.items() raises on a non-dict
ScanNetworkInfo(res, r) ==
    LET network_info == NetworkInfo(r)
    IN  IF ~Truthy(network_info) THEN Nothing
        ELSE IF ~IsDict(network_info) THEN Raise
        ELSE AddPotential(res,
               {k \in 1..Len(res) :
                  \E i \in 1..Len(network_info.v) :
                     LET value == network_info.v[i][2]
                     IN  /\ value.t \in {"str", "list"}
                         /\ Truthy(NameOf(res[k]))
                         /\ Contains(NameOf(res[k]).v, ValueStr(value))})

-----------------------------------------------------------------------------
(* Lines 1259-1344: microsoft.app/containerapps *)

\* what run_az_command's result looks like to lines 1280-1294:
\*   "error"   the call raised
\*   "nodata"  acr_result['data'] is empty
\*   "baddata" acr_result['data'][0] is not a dict
\*   "ok"      acr_result['data'][0].get('properties.loginServer') is
\*             loginServer (None when the column is missing)
Answer(kind, loginServer) == [kind |-> kind, loginServer |-> loginServer]

\* a == b for two values that are each a str or None
SameValue(a, b) == a.t = b.t /\ a.v = b.v

\* a variant of RegistryLookup that takes an empty answer for a match
RegistryLookupLenient(potential_acr, server, answer) ==
    LET acr_id == Member(IdOf(potential_acr))
    IN  CASE answer.kind = "error" ->
               log_failure("Error retrieving ACR login server for " \o acr_id)
          [] answer.kind = "nodata" -> Conf({acr_id})
          [] answer.kind = "baddata" ->
               log_failure("ACR query returned unexpected data format for " \o acr_id)
          [] OTHER ->
               IF ~SameValue(answer.loginServer, server) THEN Nothing
               ELSE IF ~HasKey(potential_acr, "id")
                    THEN log_failure("Error retrieving ACR login server for " \o acr_id)
                    ELSE Conf({acr_id})

\* lines 1280-1294 for one declared registry server and one registry
\* resource; the KeyError of potential_acr['id'] is caught at line 1293
RegistryLookup(potential_acr, server, answer) ==
    LET acr_id == Member(IdOf(potential_acr))
    IN  CASE answer.kind = "error" ->
               log_failure("Error retrieving ACR login server for " \o acr_id)
          [] answer.kind = "nodata" ->
               log_failure("ACR query returned no data for " \o acr_id)
          [] answer.kind = "baddata" ->
               log_failure("ACR query returned unexpected data format for " \o acr_id)
          [] OTHER ->
               IF ~SameValue(answer.loginServer, server) THEN Nothing
               ELSE IF ~HasKey(potential_acr, "id")
                    THEN log_failure("Error retrieving ACR login server for " \o acr_id)
                    ELSE Conf({acr_id})

\* the look-ups lines 1273-1282 make: <<j, k>> for the j-th declared
\* registry (a dict) and the k-th resource (a container registry)
RegistryCalls(res, r) ==
    LET properties == Properties(r)
        config == IF IsDict(properties) THEN GetOrNone(properties, "configuration") ELSE Null
        registries == IF IsDict(config) THEN Get(config, "registries", EmptyList) ELSE EmptyList
    IN  IF TypeIs(r, "microsoft.app/containerapps") /\ IsList(registries)
        THEN {c \in (1..Len(registries.v)) \X (1..Len(res)) :
                /\ IsDict(registries.v[c[1]])
                /\ TypeIs(res[c[2]], "microsoft.containerregistry/registries")}
        ELSE {}

\* lines 1268-1294
RegistryDependencies(res, r, config, acr) ==
    LET registries == Get(config, "registries", EmptyList)
    IN  IF ~IsList(registries)
        THEN log_failure("Unexpected format for 'registries' in resource " \o IdOf(r).v)
        ELSE ThenAll([j \in 1..Len(registries.v) |->
               IF ~IsDict(registries.v[j]) THEN Nothing
               ELSE ThenAll([k \in 1..Len(res) |->
                      IF TypeIs(res[k], "microsoft.containerregistry/registries")
                      THEN RegistryLookup(res[k],
                                          Get(registries.v[j], "server", Str("")),
                                          acr[<<j, k>>])
                      ELSE Nothing])])

\* lines 1303-1317 for one secret; secret_name.lower() raises AttributeError
\* when the name is not a str
SecretDependencies(res, secret) ==
    LET secret_name == Get(secret, "name", Str(""))
        lower == Lower(secret_name.v)
    IN  IF ~IsStr(secret_name) THEN Raise
        ELSE IF Contains("keyvault", lower) \/ Contains("kv", lower)
             THEN AddPotential(res, OfType(res, {"microsoft.keyvault/vaults"}))
        ELSE IF Contains("storage", lower)
             THEN AddPotential(res, OfType(res, {"microsoft.storage/storageaccounts"}))
        ELSE IF Contains("database", lower) \/ Contains("db", lower)
             THEN AddPotential(res, OfType(res, {"microsoft.sql/servers",
                                                 "microsoft.documentdb/databaseaccounts",
                                                 "microsoft.dbforpostgresql/flexibleservers"}))
        ELSE Nothing

\* lines 1296-1317
SecretsDependencies(res, r, config) ==
    LET secrets == Get(config, "secrets", EmptyList)
    IN  IF ~IsList(secrets)
        THEN log_failure("Unexpected format for 'secrets' in resource " \o IdOf(r).v)
        ELSE ThenAll([j \in 1..Len(secrets.v) |->
               IF IsDict(secrets.v[j]) THEN SecretDependencies(res, secrets.v[j])
               ELSE Nothing])

\* lines 1333-1344 for one env entry; secret_ref.lower() raises when the
\* reference is not a str
SecretRefDependencies(res, env_var) ==
    IF ~(IsDict(env_var) /\ HasKey(env_var, "secretRef")) THEN Nothing
    ELSE LET secret_ref == GetOrNone(env_var, "secretRef")
             lower == Lower(secret_ref.v)
         IN  IF ~IsStr(secret_ref) THEN Raise
             ELSE IF Contains("appinsights", lower)
                  THEN AddPotential(res, OfType(res, {"microsoft.insights/components"}))
             ELSE IF Contains("webpubsub", lower) \/ Contains("signalr", lower)
                  THEN AddPotential(res, OfType(res, {"microsoft.signalrservice/signalr",
                                                      "microsoft.signalrservice/webpubsub"}))
             ELSE Nothing

\* lines 1326-1344 for one container
ContainerEnvDependencies(res, r, container) ==
    IF ~(IsDict(container) /\ HasKey(container, "env")) THEN Nothing
    ELSE LET env_list == Get(container, "env", EmptyList)
         IN  IF ~IsList(env_list)
             THEN log_failure("Unexpected format for 'env' in container of resource " \o IdOf(r).v)
             ELSE ThenAll([j \in 1..Len(env_list.v) |->
                    SecretRefDependencies(res, env_list.v[j])])

\* lines 1319-1344
TemplateDependencies(res, r, template) ==
    IF ~IsDict(template) THEN Nothing
    ELSE LET containers == Get(template, "containers", EmptyList)
         IN  IF ~IsList(containers)
             THEN log_failure("Unexpected format for 'containers' in resource " \o IdOf(r).v)
             ELSE ThenAll([j \in 1..Len(containers.v) |->
                    ContainerEnvDependencies(res, r, containers.v[j])])

\* lines 1259-1344; properties.get raises AttributeError unless properties
\* is a dict
ContainerAppRule(res, r, acr) ==
    LET properties == Properties(r)
    IN  IF ~IsDict(properties) THEN Raise
        ELSE LET managed_environment_id == GetOrNone(properties, "managedEnvironmentId")
                 config == GetOrNone(properties, "configuration")
             IN  Then(IF Truthy(managed_environment_id)
                      THEN AddValue(managed_environment_id) ELSE Nothing,
                 Then(IF IsDict(config)
                      THEN Then(RegistryDependencies(res, r, config, acr),
                                SecretsDependencies(res, r, config))
                      ELSE Nothing,
                      TemplateDependencies(res, r, GetOrNone(properties, "template"))))

-----------------------------------------------------------------------------
(* Lines 1346-1569: microsoft.web/sites *)

\* the positions of a dict whose value is a str
StrItems(d) == {i \in 1..Len(d.v) : IsStr(d.v[i][2])}

\* "if <one of markers> in value: for x in resources: if x.get('type') in
\* types and x.get('name') and x['name'] in value": the resources found
HostRule(res, markers, types, value) ==
    IF \E m \in markers : Contains(m, value)
    THEN NamedIn(res, types, value) ELSE {}

\* for x in iterable: the items of a list; a dict yields its keys and a str
\* its characters (never a dict); None raises TypeError
IterRaises(d) == d.t = "null"
DictItems(d) == IF IsList(d) THEN {i \in 1..Len(d.v) : IsDict(d.v[i])} ELSE {}

storage_conn_settings ==
    {"AzureWebJobsStorage", "WEBSITE_CONTENTAZUREFILECONNECTIONSTRING",
     "AzureWebJobsDashboard", "FUNCTIONS_EXTENSION_VERSION"}

\* lines 1366-1387: confirmed targets of one function-app setting
FuncSettingConfirmed(res, setting_name, value) ==
    (IF setting_name \in storage_conn_settings
     THEN HostRule(res, {"blob.core.windows.net", "file.core.windows.net"},
                   {"microsoft.storage/storageaccounts"}, value)
     ELSE {})
    \cup (IF Contains("APPLICATIONINSIGHTS", Upper(setting_name))
          THEN NamedIn(res, {"microsoft.insights/components"}, value) ELSE {})
    \cup HostRule(res, {"@Microsoft.KeyVault", "vault.azure.net"},
                  {"microsoft.keyvault/vaults"}, value)

\* lines 1389-1423: potential targets of one function-app setting
FuncSettingPotential(res, value) ==
    HostRule(res, {"servicebus.windows.net"}, {"microsoft.servicebus/namespaces"}, value)
    \cup (IF Contains("EntityPath=", value)
          THEN HostRule(res, {"servicebus.windows.net"}, {"microsoft.eventhub/namespaces"}, value)
          ELSE {})
    \cup HostRule(res, {"cosmos.azure.com", "documents.azure.com"},
                  {"microsoft.documentdb/databaseaccounts"}, value)
    \cup HostRule(res, {"database.windows.net", "sql.azuresynapse.net"},
                  {"microsoft.sql/servers", "microsoft.sql/servers/databases"}, value)
    \cup HostRule(res, {"redis.cache.windows.net"}, {"microsoft.cache/redis"}, value)

\* lines 1357-1423
FunctionAppSettings(res, r) ==
    LET env_vars == EnvVars(r)
    IN  IF ~(Truthy(env_vars) /\ In("functionAppSettings", env_vars)) THEN Nothing
        ELSE IF ~IsDict(env_vars) THEN Raise
        ELSE LET func_settings == Get(env_vars, "functionAppSettings", EmptyDict)
             IN  IF ~IsDict(func_settings) THEN Raise
                 ELSE Then(
                   AddConfirmed(res, UNION {FuncSettingConfirmed(res,
                        func_settings.v[i][1], func_settings.v[i][2].v)
                        : i \in StrItems(func_settings)}),
                   AddPotential(res, UNION {FuncSettingPotential(res,
                        func_settings.v[i][2].v) : i \in StrItems(func_settings)}))

\* lines 1429-1440 for one vnetIntegration entry
VnetIntegrationEntry(res, vnet_integration) ==
    LET vnet_resource_id == GetOrNone(vnet_integration, "vnetResourceId")
        subnet_resource_id == GetOrNone(vnet_integration, "subnetResourceId")
    IN  Then(IF Truthy(vnet_resource_id) THEN AddValue(vnet_resource_id) ELSE Nothing,
             IF Truthy(subnet_resource_id)
             THEN AddConfirmed(res,
                    {k \in OfType(res, {"microsoft.network/virtualnetworks"}) :
                        /\ Truthy(IdOf(res[k]))
                        /\ In(IdOf(res[k]).v, subnet_resource_id)})
             ELSE Nothing)

\* lines 1425-1440
VnetIntegration(res, r) ==
    LET network_info == NetworkInfo(r)
    IN  IF ~(Truthy(network_info) /\ In("vnetIntegration", network_info)) THEN Nothing
        ELSE IF ~IsDict(network_info) THEN Raise
        ELSE LET vnet_integrations == Get(network_info, "vnetIntegration", EmptyList)
             IN  IF IterRaises(vnet_integrations) THEN Raise
                 ELSE IF ~IsList(vnet_integrations) THEN Nothing
                 ELSE ThenAll([j \in 1..Len(vnet_integrations.v) |->
                        IF IsDict(vnet_integrations.v[j])
                        THEN VnetIntegrationEntry(res, vnet_integrations.v[j])
                        ELSE Nothing])

\* lines 1446-1449 for one privateEndpoints entry
PrivateEndpointEntry(pe) ==
    LET pe_info == GetOrNone(pe, "privateEndpoint")
    IN  IF Truthy(pe_info) /\ IsDict(pe_info) /\ HasKey(pe_info, "id")
        THEN AddValue(GetOrNone(pe_info, "id")) ELSE Nothing

\* lines 1442-1449
PrivateEndpoints(r) ==
    LET network_info == NetworkInfo(r)
    IN  IF ~(Truthy(network_info) /\ In("privateEndpoints", network_info)) THEN Nothing
        ELSE IF ~IsDict(network_info) THEN Raise
        ELSE LET private_endpoints == Get(network_info, "privateEndpoints", EmptyList)
             IN  IF IterRaises(private_endpoints) THEN Raise
                 ELSE IF ~IsList(private_endpoints) THEN Nothing
                 ELSE ThenAll([j \in 1..Len(private_endpoints.v) |->
                        IF IsDict(private_endpoints.v[j])
                        THEN PrivateEndpointEntry(private_endpoints.v[j])
                        ELSE Nothing])

\* a variant of ServerFarm that adds the id in upper case as well
ServerFarmUpper(r) ==
    LET properties == Properties(r)
    IN  IF ~IsDict(properties) THEN Raise
        ELSE LET server_farm_id == GetOrNone(properties, "serverFarmId")
             IN  IF ~Truthy(server_farm_id) THEN Nothing
                 ELSE IF ~IsStr(server_farm_id) THEN Raise
                 ELSE Conf({server_farm_id.v, Upper(server_farm_id.v)})

\* lines 1353-1355 and 1454-1456: properties.get raises unless properties
\* is a dict
ServerFarm(r) ==
    LET properties == Properties(r)
    IN  IF ~IsDict(properties) THEN Raise
        ELSE LET server_farm_id == GetOrNone(properties, "serverFarmId")
             IN  IF Truthy(server_farm_id) THEN AddValue(server_farm_id) ELSE Nothing

\* lines 1350-1449
FunctionAppRule(res, r) ==
    Then(ServerFarm(r),
    Then(FunctionAppSettings(res, r),
    Then(VnetIntegration(res, r), PrivateEndpoints(r))))

\* lines 1473-1530: potential targets of one connection string
ConnStringPotential(res, value) ==
    HostRule(res, {"database.windows.net", "sql.azuresynapse.net"},
             {"microsoft.sql/servers", "microsoft.sql/servers/databases"}, value)
    \cup HostRule(res, {"blob.core.windows.net", "table.core.windows.net",
                        "queue.core.windows.net", "file.core.windows.net"},
                  {"microsoft.storage/storageaccounts"}, value)
    \cup HostRule(res, {"cosmos.azure.com", "documents.azure.com"},
                  {"microsoft.documentdb/databaseaccounts"}, value)
    \cup HostRule(res, {"postgres.database.azure.com"},
                  {"microsoft.dbforpostgresql/servers",
                   "microsoft.dbforpostgresql/flexibleservers"}, value)
    \cup HostRule(res, {"mysql.database.azure.com"},
                  {"microsoft.dbformysql/servers",
                   "microsoft.dbformysql/flexibleservers"}, value)
    \cup HostRule(res, {"servicebus.windows.net"}, {"microsoft.servicebus/namespaces"}, value)
    \cup (IF Contains("EntityPath=", value)
          THEN HostRule(res, {"servicebus.windows.net"}, {"microsoft.eventhub/namespaces"}, value)
          ELSE {})
    \cup HostRule(res, {"redis.cache.windows.net"}, {"microsoft.cache/redis"}, value)

\* lines 1537-1557: potential targets of one app setting
AppSettingPotential(res, value) ==
    HostRule(res, {"@Microsoft.KeyVault", "vault.azure.net"},
             {"microsoft.keyvault/vaults"}, value)
    \cup HostRule(res, {"servicebus.windows.net"}, {"microsoft.servicebus/namespaces"}, value)
    \cup HostRule(res, {"webpubsub.azure.com", "service.signalr.net"},
                  {"microsoft.signalrservice/signalr",
                   "microsoft.signalrservice/webpubsub"}, value)

\* lines 1458-1557
WebAppSettings(res, r) ==
    LET env_vars == EnvVars(r)
    IN  IF ~Truthy(env_vars) THEN Nothing
        ELSE IF ~IsDict(env_vars) THEN Raise
        ELSE LET app_settings == Get(env_vars, "appSettings", EmptyDict)
                 conn_strings == Get(env_vars, "connectionStrings", EmptyDict)
             IN  IF ~IsDict(app_settings) \/ ~IsDict(conn_strings) THEN Raise
                 ELSE AddPotential(res,
                        UNION {IF Contains("APPLICATIONINSIGHTS", Upper(app_settings.v[i][1]))
                               THEN NamedIn(res, {"microsoft.insights/components"},
                                            app_settings.v[i][2].v)
                               ELSE {} : i \in StrItems(app_settings)}
                        \cup UNION {ConnStringPotential(res, conn_strings.v[i][2].v)
                                    : i \in StrItems(conn_strings)}
                        \cup UNION {AppSettingPotential(res, app_settings.v[i][2].v)
                                    : i \in StrItems(app_settings)})

\* lines 1565-1569 for one siteConfig.appSettings entry; `name in
\* conn_string` raises TypeError when the value is None
SiteConfigSetting(res, setting) ==
    IF ~(/\ IsDict(setting)
         /\ SameValue(GetOrNone(setting, "name"), Str("APPLICATIONINSIGHTS_CONNECTION_STRING"))
         /\ HasKey(setting, "value"))
    THEN Nothing
    ELSE LET conn_string == GetOrNone(setting, "value")
             named == {k \in OfType(res, {"microsoft.insights/components"}) :
                          Truthy(NameOf(res[k]))}
         IN  IF named # {} /\ InRaises(conn_string) THEN Raise
             ELSE AddConfirmed(res, {k \in named : In(NameOf(res[k]).v, conn_string)})

\* lines 1559-1569; site_config.get raises unless siteConfig is a dict
SiteConfig(res, r) ==
    LET properties == Properties(r)
    IN  IF ~(Truthy(properties) /\ HasKey(properties, "siteConfig")
             /\ GetOrNone(properties, "siteConfig").t # "null")
        THEN Nothing
        ELSE LET site_config == GetOrNone(properties, "siteConfig")
             IN  IF ~IsDict(site_config) THEN Raise
                 ELSE LET app_settings == Get(site_config, "appSettings", EmptyList)
                      IN  IF Truthy(app_settings) /\ IsList(app_settings)
                          THEN ThenAll([j \in 1..Len(app_settings.v) |->
                                 SiteConfigSetting(res, app_settings.v[j])])
                          ELSE Nothing

\* lines 1451-1569
WebAppRule(res, r) ==
    Then(ServerFarm(r), Then(WebAppSettings(res, r), SiteConfig(res, r)))

\* lines 1346-1569; resource.get('kind', '').lower() raises AttributeError
\* when kind is None
WebSiteRule(res, r) ==
    IF ~IsStr(KindOf(r)) THEN Raise
    ELSE IF Contains("functionapp", Lower(KindOf(r).v))
         THEN FunctionAppRule(res, r)
         ELSE WebAppRule(res, r)

-----------------------------------------------------------------------------
(* Lines 1571-1724: the other type-specific rules *)

\* "if specific_config: for x in resources: if x.get('type') in types and
\* x.get('name') and x['name'] in json.dumps(specific_config)"
ConfigNames(res, r, types) ==
    IF Truthy(SpecificConfig(r))
    THEN AddPotential(res, NamedIn(res, types, Dumps(SpecificConfig(r))))
    ELSE Nothing

\* lines 1571-1578
InsightsRule(res, r) == ConfigNames(res, r, {"microsoft.storage/storageaccounts"})

\* lines 1580-1594
ApiManagementRule(res, r) ==
    Then(AddPotential(res, OfType(res, {"microsoft.insights/components"})),
         ConfigNames(res, r, {"microsoft.web/sites", "microsoft.storage/storageaccounts",
                              "microsoft.keyvault/vaults"}))

\* lines 1596-1607
KeyVaultRule(res, r) ==
    LET specific_config == SpecificConfig(r)
    IN  IF ~Truthy(specific_config) THEN Nothing
        ELSE IF ~IsDict(specific_config) THEN Raise
        ELSE IF ~IsList(Get(specific_config, "accessPolicies", EmptyList))
             THEN log_failure("Unexpected format for 'accessPolicies' in Key Vault " \o IdOf(r).v)
             ELSE Nothing

\* lines 1619-1627
NetworkInterfaces(r) ==
    LET properties == Properties(r)
    IN  IF ~Truthy(properties) THEN Nothing
        ELSE IF ~In("networkProfile", properties) THEN Nothing
        ELSE IF ~IsDict(properties) THEN Raise
        ELSE LET network_profile == Get(properties, "networkProfile", EmptyDict)
             IN  IF ~IsDict(network_profile) THEN Raise
                 ELSE LET network_interfaces ==
                              Get(network_profile, "networkInterfaces", EmptyList)
                      IN  IF ~IsList(network_interfaces)
                          THEN log_failure("Unexpected format for 'networkInterfaces' in VM "
                                           \o IdOf(r).v)
                          ELSE ThenAll([j \in 1..Len(network_interfaces.v) |->
                                 LET nic == network_interfaces.v[j]
                                 IN  IF IsDict(nic) /\ HasKey(nic, "id")
                                     THEN AddValue(GetOrNone(nic, "id")) ELSE Nothing])

\* lines 1609-1627
VirtualMachineRule(res, r) ==
    Then(ConfigNames(res, r, {"microsoft.storage/storageaccounts"}),
         NetworkInterfaces(r))

\* lines 1664-1667 and 1721-1724: the virtual networks whose id occurs in
\* the subnet reference; `id in subnet_id` raises TypeError on None
ParentVnets(res, subnet_id) ==
    LET vnets == {k \in OfType(res, {"microsoft.network/virtualnetworks"}) :
                     Truthy(IdOf(res[k]))}
    IN  IF vnets # {} /\ InRaises(subnet_id) THEN Raise
        ELSE AddConfirmed(res, {k \in vnets : In(IdOf(res[k]).v, subnet_id)})

\* a variant of LoadBalancerOfPool that keeps the pool kind in the path
LoadBalancerOfPoolLong(pool) ==
    IF ~(IsDict(pool) /\ HasKey(pool, "id")) THEN Nothing
    ELSE LET pool_id == GetOrNone(pool, "id")
         IN  IF ~IsStr(pool_id) THEN Raise
             ELSE LET lb_id_parts == Split(pool_id.v)
                  IN  IF Len(lb_id_parts) >= 9
                      THEN Conf({Join(SubSeq(lb_id_parts, 1, 10))})
                      ELSE Nothing

\* lines 1676-1683 and 1692-1698 for one pool: the first nine '/'-separated
\* parts of the pool id; pool_id.split raises unless the id is a str
LoadBalancerOfPool(pool) ==
    IF ~(IsDict(pool) /\ HasKey(pool, "id")) THEN Nothing
    ELSE LET pool_id == GetOrNone(pool, "id")
         IN  IF ~IsStr(pool_id) THEN Raise
             ELSE LET lb_id_parts == Split(pool_id.v)
                  IN  IF Len(lb_id_parts) >= 9
                      THEN Conf({Join(SubSeq(lb_id_parts, 1, 9))})
                      ELSE Nothing

\* lines 1670-1683 and 1686-1698: one of the two pool lists
PoolList(r, ip_config, key) ==
    LET pools == Get(ip_config, key, EmptyList)
    IN  IF ~IsList(pools)
        THEN log_failure("Unexpected format for '" \o key \o "' in VMSS " \o IdOf(r).v)
        ELSE ThenAll([j \in 1..Len(pools.v) |-> LoadBalancerOfPool(pools.v[j])])

\* lines 1657-1698 for one ip configuration
IpConfiguration(res, r, ip_config) ==
    IF ~IsDict(ip_config) THEN Nothing
    ELSE LET subnet == GetOrNone(ip_config, "subnet")
         IN  Then(IF Truthy(subnet) /\ IsDict(subnet) /\ HasKey(subnet, "id")
                  THEN ParentVnets(res, GetOrNone(subnet, "id")) ELSE Nothing,
             Then(PoolList(r, ip_config, "loadBalancerBackendAddressPools"),
                  PoolList(r, ip_config, "loadBalancerInboundNatPools")))

\* lines 1650-1698 for one network interface configuration
NicConfiguration(res, r, nic_config) ==
    IF ~IsDict(nic_config) THEN Nothing
    ELSE LET ip_configs == Get(nic_config, "ipConfigurations", EmptyList)
         IN  IF ~IsList(ip_configs)
             THEN log_failure("Unexpected format for 'ipConfigurations' in VMSS " \o IdOf(r).v)
             ELSE ThenAll([j \in 1..Len(ip_configs.v) |->
                    IpConfiguration(res, r, ip_configs.v[j])])

\* lines 1639-1698
VirtualMachineProfile(res, r) ==
    LET properties == Properties(r)
    IN  IF ~Truthy(properties) THEN Nothing
        ELSE IF ~In("virtualMachineProfile", properties) THEN Nothing
        ELSE IF ~IsDict(properties) THEN Raise
        ELSE LET vm_profile == Get(properties, "virtualMachineProfile", EmptyDict)
             IN  IF ~IsDict(vm_profile) THEN Raise
                 ELSE LET network_profile == Get(vm_profile, "networkProfile", EmptyDict)
                      IN  IF ~IsDict(network_profile) THEN Raise
                          ELSE LET nic_configs == Get(network_profile,
                                       "networkInterfaceConfigurations", EmptyList)
                               IN  IF ~IsList(nic_configs)
                                   THEN log_failure("Unexpected format for 'networkInterfaceConfigurations' in VMSS " \o IdOf(r).v)
                                   ELSE ThenAll([j \in 1..Len(nic_configs.v) |->
                                          NicConfiguration(res, r, nic_configs.v[j])])

\* lines 1700-1707: a list yields its items; a str yields its characters
\* and a dict its keys; None raises TypeError
AssociatedLoadBalancers(res, r) ==
    LET network_info == NetworkInfo(r)
    IN  IF ~Truthy(network_info) THEN Nothing
        ELSE IF ~IsDict(network_info) THEN Raise
        ELSE LET lbs == Get(network_info, "associatedLoadBalancers", EmptyList)
                 names == CASE lbs.t = "list" ->
                                 {lbs.v[i].v : i \in {j \in 1..Len(lbs.v) : IsStr(lbs.v[j])}}
                            [] lbs.t = "dict" -> {lbs.v[i][1] : i \in 1..Len(lbs.v)}
                            [] OTHER -> {SubSeq(lbs.v, i, i) : i \in 1..Len(lbs.v)}
             IN  IF IterRaises(lbs) THEN Raise
                 ELSE AddConfirmed(res,
                        {k \in OfType(res, {"microsoft.network/loadbalancers"}) :
                            IsStr(GetOrNone(res[k], "name"))
                            /\ GetOrNone(res[k], "name").v \in names})

\* lines 1629-1707
ScaleSetRule(res, r) ==
    Then(ConfigNames(res, r, {"microsoft.storage/storageaccounts"}),
    Then(VirtualMachineProfile(res, r), AssociatedLoadBalancers(res, r)))

\* lines 1709-1724
StorageAccountRule(res, r) ==
    LET specific_config == SpecificConfig(r)
    IN  IF ~Truthy(specific_config) THEN Nothing
        ELSE IF ~In("networkRuleSet", specific_config) THEN Nothing
        ELSE IF ~IsDict(specific_config) THEN Raise
        ELSE LET network_rules == Get(specific_config, "networkRuleSet", EmptyDict)
             IN  IF ~IsDict(network_rules) THEN Raise
                 ELSE LET virtual_network_rules ==
                              Get(network_rules, "virtualNetworkRules", EmptyList)
                      IN  IF ~IsList(virtual_network_rules)
                          THEN log_failure("Unexpected format for 'virtualNetworkRules' in Storage Account " \o IdOf(r).v)
                          ELSE ThenAll([j \in 1..Len(virtual_network_rules.v) |->
                                 LET vnet_rule == virtual_network_rules.v[j]
                                 IN  IF IsDict(vnet_rule) /\ HasKey(vnet_rule, "id")
                                     THEN ParentVnets(res, GetOrNone(vnet_rule, "id"))
                                     ELSE Nothing])

\* lines 1258-1724: the if/elif chain on resource_type, compared as it is
TypeRule(res, r, acr) ==
    LET resource_type == TypeOf(r).v
    IN  CASE resource_type = "microsoft.app/containerapps" -> ContainerAppRule(res, r, acr)
          [] resource_type = "microsoft.web/sites" -> WebSiteRule(res, r)
          [] resource_type = "microsoft.insights/components" -> InsightsRule(res, r)
          [] resource_type = "microsoft.apimanagement/service" -> ApiManagementRule(res, r)
          [] resource_type = "microsoft.keyvault/vaults" -> KeyVaultRule(res, r)
          [] resource_type = "microsoft.compute/virtualmachines" -> VirtualMachineRule(res, r)
          [] resource_type = "microsoft.compute/virtualmachinescalesets" -> ScaleSetRule(res, r)
          [] resource_type = "microsoft.storage/storageaccounts" -> StorageAccountRule(res, r)
          [] OTHER -> Nothing

\* lines 1179-1724: one iteration of the main loop
AnalyzeOne(res, r, acr) ==
    IF ~Truthy(IdOf(r))
    THEN log_failure("Resource missing 'id', skipping dependency analysis for "
                     \o Member(Get(r, "name", Str("Unknown"))) \o ".")
    ELSE IF ~Truthy(TypeOf(r))
    THEN log_failure("Resource " \o IdOf(r).v \o " missing 'type', skipping dependency analysis.")
    ELSE Then(GlobalIdContainment(res, r),
         Then(ScanEnvVars(res, r),
         Then(ScanNetworkInfo(res, r), TypeRule(res, r, acr))))

\* a variant of ImplicitOne with the dashboard pair only
ImplicitOneDashboards(res, r) ==
    IF ~Truthy(IdOf(r)) THEN Nothing
    ELSE IF TypeIn(r, {"microsoft.portal/dashboards"})
         THEN AddPotential(res, OfType(res, {"microsoft.insights/components"}))
         ELSE Nothing

\* lines 1735-1744 for one resource with an id
ImplicitOne(res, r) ==
    IF ~Truthy(IdOf(r)) THEN Nothing
    ELSE IF TypeIn(r, {"microsoft.portal/dashboards", "microsoft.app/managedenvironments"})
         THEN AddPotential(res, OfType(res, {"microsoft.insights/components"}))
         ELSE Nothing

-----------------------------------------------------------------------------
(* The resource records the catalogs of the model are drawn from *)

\* a hosting plan
plan1 ==
    Dict(<< <<"id", Str("/s/plan1")>>,
             <<"name", Str("plan1")>>,
             <<"type", Str("microsoft.web/serverfarms")>> >>)

\* a web site on plan1, no other reference
app1 ==
    Dict(<< <<"id", Str("/s/app1")>>,
             <<"name", Str("app1")>>,
             <<"type", Str("microsoft.web/sites")>>,
             <<"kind", Str("app")>>,
             <<"properties", Dict(<< <<"serverFarmId", Str("/s/plan1")>> >>)>> >>)

\* a web site whose only signal is an app setting naming a SQL host
app2 ==
    Dict(<< <<"id", Str("/s/app2")>>,
             <<"name", Str("app2")>>,
             <<"type", Str("microsoft.web/sites")>>,
             <<"kind", Str("app")>>,
             <<"properties", EmptyDict>>,
             <<"environmentVariables", Dict(<< <<"appSettings", Dict(<< <<"DB", Str("Server=tcp:myserver.database.windows.net")>> >>)>> >>)>> >>)

\* a web site whose own host name and own id occur in its descriptor
app3 ==
    Dict(<< <<"id", Str("/s/app3")>>,
             <<"name", Str("app3")>>,
             <<"type", Str("microsoft.web/sites")>>,
             <<"kind", Str("app")>>,
             <<"properties", Dict(<< <<"defaultHostName", Str("app3.azurewebsites.net")>>,
                                   <<"configId", Str("/s/app3/config/web")>> >>)>>,
             <<"networkInfo", Dict(<< <<"hostNames", List(<< Str("app3.azurewebsites.net") >>)>> >>)>> >>)

\* a SQL server
myserver ==
    Dict(<< <<"id", Str("/s/myserver")>>,
             <<"name", Str("myserver")>>,
             <<"type", Str("microsoft.sql/servers")>> >>)

\* a Cosmos account whose name is myserver once hyphens are removed
my_server ==
    Dict(<< <<"id", Str("/s/my-server")>>,
             <<"name", Str("my-server")>>,
             <<"type", Str("microsoft.documentdb/databaseaccounts")>> >>)

\* a storage account
stor1 ==
    Dict(<< <<"id", Str("/s/stor1")>>,
             <<"name", Str("stor1")>>,
             <<"type", Str("microsoft.storage/storageaccounts")>> >>)

\* a container app in env1, no other reference
ca1 ==
    Dict(<< <<"id", Str("/s/ca1")>>,
             <<"name", Str("ca1")>>,
             <<"type", Str("microsoft.app/containerapps")>>,
             <<"properties", Dict(<< <<"managedEnvironmentId", Str("/s/env1")>> >>)>> >>)

\* a container app that declares a registry server
ca2 ==
    Dict(<< <<"id", Str("/s/ca2")>>,
             <<"name", Str("ca2")>>,
             <<"type", Str("microsoft.app/containerapps")>>,
             <<"properties", Dict(<< <<"configuration", Dict(<< <<"registries", List(<< Dict(<< <<"server", Str("acr1.azurecr.io")>> >>) >>)>> >>)>> >>)>> >>)

\* a container-app managed environment
env1 ==
    Dict(<< <<"id", Str("/s/env1")>>,
             <<"name", Str("env1")>>,
             <<"type", Str("microsoft.app/managedenvironments")>> >>)

\* an insights component
ai1 ==
    Dict(<< <<"id", Str("/s/ai1")>>,
             <<"name", Str("ai1")>>,
             <<"type", Str("microsoft.insights/components")>> >>)

\* a container registry
acr1 ==
    Dict(<< <<"id", Str("/s/acr1")>>,
             <<"name", Str("acr1")>>,
             <<"type", Str("microsoft.containerregistry/registries")>> >>)

\* a virtual machine with one network interface
vm1 ==
    Dict(<< <<"id", Str("/s/vm1")>>,
             <<"name", Str("vm1")>>,
             <<"type", Str("microsoft.compute/virtualmachines")>>,
             <<"properties", Dict(<< <<"networkProfile", Dict(<< <<"networkInterfaces", List(<< Dict(<< <<"id", Str("/s/nic1")>> >>) >>)>> >>)>> >>)>> >>)

\* the network interface of vm1, which refers back to vm1
nic1 ==
    Dict(<< <<"id", Str("/s/nic1")>>,
             <<"name", Str("nic1")>>,
             <<"type", Str("microsoft.network/networkinterfaces")>>,
             <<"properties", Dict(<< <<"virtualMachine", Dict(<< <<"id", Str("/s/vm1")>> >>)>> >>)>> >>)

\* a web site whose properties are a plain string
badsite ==
    Dict(<< <<"id", Str("/s/bad1")>>,
             <<"name", Str("bad1")>>,
             <<"type", Str("microsoft.web/sites")>>,
             <<"kind", Str("app")>>,
             <<"properties", Str("not-json")>> >>)

\* a virtual machine whose properties are a plain string
badvm ==
    Dict(<< <<"id", Str("/s/bad2")>>,
             <<"name", Str("bad2")>>,
             <<"type", Str("microsoft.compute/virtualmachines")>>,
             <<"properties", Str("not-json")>> >>)

\* a resource whose id is None
nullid ==
    Dict(<< <<"id", Null>>,
             <<"name", Str("nullid")>>,
             <<"type", Str("microsoft.web/serverfarms")>> >>)

\* a resource whose id is the empty string
emptyid ==
    Dict(<< <<"id", Str("")>>,
             <<"name", Str("emptyid")>>,
             <<"type", Str("microsoft.web/serverfarms")>> >>)

\* a resource without a type whose properties hold plan1's id
notype ==
    Dict(<< <<"id", Str("/s/nt1")>>,
             <<"name", Str("nt1")>>,
             <<"properties", Dict(<< <<"ref", Str("/s/plan1")>> >>)>> >>)

\* an insights component without an id, named like the SQL server
noid ==
    Dict(<< <<"name", Str("myserver")>>,
             <<"type", Str("microsoft.insights/components")>> >>)

\* a web site whose appSettings are a list
badsettings ==
    Dict(<< <<"id", Str("/s/bad3")>>,
             <<"name", Str("bad3")>>,
             <<"type", Str("microsoft.web/sites")>>,
             <<"kind", Str("app")>>,
             <<"properties", EmptyDict>>,
             <<"environmentVariables",
               Dict(<< <<"appSettings", List(<< Str("DB=x") >>)>> >>)>> >>)

\* a container app with a secret whose name is None
badsecret ==
    Dict(<< <<"id", Str("/s/bad4")>>,
             <<"name", Str("bad4")>>,
             <<"type", Str("microsoft.app/containerapps")>>,
             <<"properties",
               Dict(<< <<"configuration",
                         Dict(<< <<"secrets",
                                   List(<< Dict(<< <<"name", Null>> >>) >>)>> >>)>> >>)>> >>)

\* a container app whose registries are a str
ca3 ==
    Dict(<< <<"id", Str("/s/ca3")>>,
             <<"name", Str("ca3")>>,
             <<"type", Str("microsoft.app/containerapps")>>,
             <<"properties",
               Dict(<< <<"configuration",
                         Dict(<< <<"registries", Str("acr1.azurecr.io")>> >>)>> >>)>> >>)

\* an application gateway (a type without a rule) with an app setting that
\* names stor1 and an endpoint that names vm1 and myserver
gw1 ==
    Dict(<< <<"id", Str("/s/gw1")>>,
             <<"name", Str("gw1")>>,
             <<"type", Str("microsoft.network/applicationgateways")>>,
             <<"environmentVariables",
               Dict(<< <<"appSettings",
                         Dict(<< <<"HOST", Str("stor1.blob.core.windows.net")>> >>)>> >>)>>,
             <<"networkInfo",
               Dict(<< <<"endpoint", Str("vm1.myserver.net")>> >>)>> >>)

\* a dashboard
dash1 ==
    Dict(<< <<"id", Str("/s/dash1")>>,
             <<"name", Str("dash1")>>,
             <<"type", Str("microsoft.portal/dashboards")>> >>)

\* a virtual network
vnet1 ==
    Dict(<< <<"id", Str("/s/vnet1")>>,
             <<"name", Str("vnet1")>>,
             <<"type", Str("microsoft.network/virtualnetworks")>> >>)

\* a scale set in a subnet of vnet1, behind a backend pool of load balancer
\* lb1 and a NAT pool of load balancer lb2
vmss1 ==
    Dict(<< <<"id", Str("/s/vmss1")>>,
             <<"name", Str("vmss1")>>,
             <<"type", Str("microsoft.compute/virtualmachinescalesets")>>,
             <<"properties",
               Dict(<< <<"virtualMachineProfile",
                 Dict(<< <<"networkProfile",
                   Dict(<< <<"networkInterfaceConfigurations",
                     List(<< Dict(<< <<"ipConfigurations",
                       List(<< Dict(<<
                         <<"subnet",
                           Dict(<< <<"id", Str("/s/vnet1/subnets/default")>> >>)>>,
                         <<"loadBalancerBackendAddressPools",
                           List(<< Dict(<< <<"id", Str("/subscriptions/S/resourceGroups/G/providers/Microsoft.Network/loadBalancers/lb1/backendAddressPools/P")>> >>) >>)>>,
                         <<"loadBalancerInboundNatPools",
                           List(<< Dict(<< <<"id", Str("/subscriptions/S/resourceGroups/G/providers/Microsoft.Network/loadBalancers/lb2/inboundNatPools/Q")>> >>) >>)>>
                       >>) >>)>> >>) >>)>> >>)>> >>)>> >>)>> >>)

\* the example catalogs of three resources
Scenarios ==
    << <<app2, myserver, stor1>>,
       <<app2, myserver, my_server>>,
       <<plan1, app1, badsite>>,
       <<ca1, env1, ai1>>,
       <<app1, vm1, nic1>>,
       <<dash1, env1, ai1>> >>

\* the resource records catalogs are made of
Templates ==
    << plan1, app1, app2, app3, myserver, my_server,
       stor1, ca1, ca2, env1, ai1, acr1,
       vm1, nic1, badsite, badvm, nullid, emptyid,
       notype, noid, badsettings, badsecret, ca3, gw1, dash1,
       vnet1, vmss1 >>

-----------------------------------------------------------------------------
(* get_resource_dependencies as a state machine *)

\* the longest catalog
MaxResources == 2

\* the catalogs: every sequence of at most MaxResources entries
Catalogs ==
    UNION {[1..n -> 1..Len(Templates)] : n \in 0..MaxResources}

\* the answers a registry look-up may get
AcrAnswers ==
    {Answer("error", Null), Answer("nodata", Null), Answer("baddata", Null),
     Answer("ok", Null), Answer("ok", Str("acr1.azurecr.io")),
     Answer("ok", Str("other.azurecr.io"))}

EmptyMapping == [id \in {} |-> {}]

\* outside list_resources its variables are unset
NotListing ==
    /\ enhanced_mode = FALSE
    /\ basic_resources = <<>>
    /\ enhanced_resources = <<>>

\* no companion tool is running
NotReporting ==
    /\ detailed_resources = EmptyDict
    /\ resource_lookup = EmptyDict

\* no wrapped function is being called
NotRetrying ==
    /\ max_retries = 0
    /\ initial_delay = 0
    /\ backoff_factor = 0
    /\ attempt = 0
    /\ delay = 0
    /\ slept = <<>>
    /\ invoked = 0
    /\ attempt_result = [kind |-> "none", v |-> "", stderr |-> ""]
    /\ wrapper_result = [kind |-> "none", v |-> "", stderr |-> ""]

\* transform.py is not running
NotTransforming ==
    /\ input_file = Null
    /\ input_data = Null
    /\ transformed = EmptyDict
    /\ raised = ""

\* run_az_command is not running
NotPaging ==
    /\ all_results = <<>>
    /\ skip_token = Null
    /\ pages = <<>>

\* no AzureResourceGraphBuilder is at work
NotBuilding ==
    /\ self_resources = <<>>
    /\ dependencies = EmptyMapping

\* no companion tool and no az command wrapper is running
NotInTools ==
    /\ NotReporting
    /\ NotRetrying
    /\ NotTransforming
    /\ NotPaging
    /\ NotBuilding

\* get_resource_dependencies called on its own: main has no state
NotInMain ==
    /\ subscription_id = ""
    /\ resource_groups = <<>>
    /\ include_potential_deps = FALSE
    /\ main_data = Null
    /\ data_file = ""
    /\ data_from_output = Null
    /\ html = [nodes |-> <<>>, links |-> <<>>]
    /\ mermaid = <<>>

\* the state at the call of get_resource_dependencies on catalog res
Called(res) ==
    /\ resources = res
    /\ pc = "init"
    /\ idx = 0
    /\ confirmed_dependencies = EmptyMapping
    /\ potential_dependencies = EmptyMapping
    /\ _failed_operations_log = <<>>
    /\ run = 1
    /\ first_result = [variant |-> "none", order |-> <<>>,
                       confirmed |-> EmptyMapping, potential |-> EmptyMapping]
    /\ lookups = {}
    /\ NotInMain
    /\ NotListing
    /\ NotInTools

Init ==
    \/ \E c \in Catalogs : Called([j \in 1..Len(c) |-> Templates[c[j]]])
    \/ \E i \in 1..Len(Scenarios) : Called(Scenarios[i])

\* a variant of InitialKeys: the ids that are not None
InitialKeysNonNull(res) ==
    {IdOf(res[k]).v : k \in {j \in 1..Len(res) : IdOf(res[j]).t # "null"}}

\* the keys lines 1168-1172 create: the ids that are truthy
InitialKeys(res) ==
    {IdOf(res[k]).v : k \in {j \in 1..Len(res) : Truthy(IdOf(res[j]))}}

\* lines 1164-1174: an empty set per truthy id, a log entry per other resource
InitializeSets ==
    /\ pc = "init"
    /\ confirmed_dependencies' = [id \in InitialKeys(resources) |-> {}]
    /\ potential_dependencies' = [id \in InitialKeys(resources) |-> {}]
    /\ _failed_operations_log' = _failed_operations_log \o
          ThenAll([k \in 1..Len(resources) |->
             IF Truthy(IdOf(resources[k])) THEN Nothing
             ELSE log_failure("Resource missing 'id', cannot initialize for dependency tracking: "
                              \o Member(Get(resources[k], "name", Str("Unknown"))))]).log
    /\ idx' = 1
    /\ pc' = IF Len(resources) = 0 THEN "implicit" ELSE "analyze"
    /\ UNCHANGED <<resources, run, first_result, lookups, main_vars, list_vars, tool_vars>>

\* the look-ups one iteration of the main loop makes: none when the
\* iteration skips the resource or raises before the type rules
CallsMade(res, r) ==
    IF Truthy(IdOf(r)) /\ Truthy(TypeOf(r))
       /\ ~Then(GlobalIdContainment(res, r),
                Then(ScanEnvVars(res, r), ScanNetworkInfo(res, r))).err
    THEN RegistryCalls(res, r) ELSE {}

\* lines 1179-1724: one iteration of the main loop, for resources[idx]
AnalyzeResource ==
    /\ pc = "analyze"
    /\ LET r == resources[idx]
       IN  \E acr \in [CallsMade(resources, r) -> AcrAnswers] :
             \E R \in {AnalyzeOne(resources, r, acr)} :
             LET id == IdOf(r).v
             IN  /\ _failed_operations_log' = _failed_operations_log \o R.log
                 /\ lookups' = lookups \cup
                       {<<Member(IdOf(resources[c[2]])), acr[c]>> : c \in DOMAIN acr}
                 /\ IF R.err
                    THEN /\ pc' = "raised"
                         /\ UNCHANGED <<idx, confirmed_dependencies, potential_dependencies>>
                    ELSE /\ pc' = IF idx = Len(resources) THEN "implicit" ELSE "analyze"
                         /\ idx' = idx + 1
                         /\ confirmed_dependencies' =
                               IF R.conf = {} THEN confirmed_dependencies
                               ELSE [confirmed_dependencies EXCEPT ![id] = @ \cup R.conf]
                         /\ potential_dependencies' =
                               IF R.pot = {} THEN potential_dependencies
                               ELSE [potential_dependencies EXCEPT ![id] = @ \cup R.pot]
    /\ UNCHANGED <<resources, run, first_result, main_vars, list_vars, tool_vars>>

\* lines 1726-1746: the implicit type pairs, then the return
ImplicitDependencies ==
    /\ pc = "implicit"
    /\ LET R == [k \in 1..Len(resources) |-> ImplicitOne(resources, resources[k])]
       IN  IF \E k \in 1..Len(resources) : R[k].err
           THEN /\ pc' = "raised"
                /\ UNCHANGED potential_dependencies
           ELSE /\ pc' = "done"
                /\ potential_dependencies' =
                      [id \in DOMAIN potential_dependencies |->
                         potential_dependencies[id] \cup
                         UNION {R[k].pot : k \in {j \in 1..Len(resources) :
                                   Truthy(IdOf(resources[j])) /\ IdOf(resources[j]).v = id}}]
    /\ UNCHANGED <<resources, idx, confirmed_dependencies, _failed_operations_log,
                   run, first_result, lookups, main_vars, list_vars, tool_vars>>

Next ==
    \/ InitializeSets
    \/ AnalyzeResource
    \/ ImplicitDependencies

Spec == Init /\ [][Next]_vars

-----------------------------------------------------------------------------
(* A caller that calls get_resource_dependencies a second time, on the same  *)
(* resources listed in another order or with their type strings written in  *)
(* another letter case                                                       *)

\* the resource with its type string in upper case
Recased(r) ==
    Dict([i \in 1..Len(r.v) |->
            IF r.v[i][1] = "type" /\ IsStr(r.v[i][2])
            THEN <<"type", Str(Upper(r.v[i][2].v))>>
            ELSE r.v[i]])

\* the orders a catalog of n resources can be listed in
Orders(n) == {p \in [1..n -> 1..n] : \A i, j \in 1..n : p[i] = p[j] => i = j}

\* the second call starts from fresh local mappings; the log is module-global
\* and keeps its entries
CallAgainWith(res, variant, order) ==
    /\ pc = "done"
    /\ run = 1
    /\ run' = 2
    /\ first_result' = [variant |-> variant, order |-> order,
                        confirmed |-> confirmed_dependencies,
                        potential |-> potential_dependencies]
    /\ resources' = res
    /\ pc' = "init"
    /\ idx' = 0
    /\ confirmed_dependencies' = EmptyMapping
    /\ potential_dependencies' = EmptyMapping
    /\ UNCHANGED <<_failed_operations_log, lookups, main_vars, list_vars, tool_vars>>

CallAgainReordered ==
    \E p \in Orders(Len(resources)) :
        CallAgainWith([j \in 1..Len(resources) |-> resources[p[j]]], "reordered", p)

CallAgainRecased ==
    \E S \in SUBSET (1..Len(resources)) :
        /\ S # {}
        /\ CallAgainWith([j \in 1..Len(resources) |->
                            IF j \in S THEN Recased(resources[j]) ELSE resources[j]],
                         "recased", [j \in 1..Len(resources) |-> j])

\* the resource records the catalogs of the repeated call are drawn from
AgainTemplates ==
    << plan1, app1, ca1, ca2, env1, ai1, acr1, vm1, nic1 >>

AgainCatalogs ==
    UNION {[1..n -> 1..Len(AgainTemplates)] : n \in 0..MaxResources}

InitAgain ==
    \/ \E c \in AgainCatalogs : Called([j \in 1..Len(c) |-> AgainTemplates[c[j]]])
    \/ \E i \in 1..Len(Scenarios) : Called(Scenarios[i])

NextAgain ==
    \/ InitializeSets
    \/ AnalyzeResource
    \/ ImplicitDependencies
    \/ CallAgainReordered
    \/ CallAgainRecased

SpecAgain == InitAgain /\ [][NextAgain]_vars

-----------------------------------------------------------------------------
(* The diagram renderers: arg_mermaid.py and arg_html.py.  The renderers    *)
(* receive what main loaded from the snapshot: `resources` and              *)
(* `resource_groups` are lists of dicts, the dependency mappings are dicts  *)
(* from an id to a list of ids.                                             *)

\* chr(n) for the code points 65..91, arg_mermaid.py lines 54 and 207
Chr(n) == SubSeq("ABCDEFGHIJKLMNOPQRSTUVWXYZ[", n - 64, n - 64)

RECURSIVE StrOfInt(_)
\* str(n) for a natural number, the f-string at arg_mermaid.py line 209
StrOfInt(n) ==
    IF n < 10 THEN SubSeq("0123456789", n + 1, n + 1)
    ELSE StrOfInt(n \div 10) \o StrOfInt(n % 10)

\* str.capitalize()
Capitalize(s) ==
    IF s = "" THEN "" ELSE Upper(SubSeq(s, 1, 1)) \o Lower(SubSeq(s, 2, Len(s)))

\* truncate_subscription_id, arg_mermaid.py lines 10-20
truncate_subscription_id(sub_id) ==
    SubSeq(sub_id, 1, IF Len(sub_id) < 10
                               THEN Len(sub_id) ELSE 10) \o "..."

\* resource_type.split('/')[-1].capitalize(), arg_mermaid.py lines 156 and 199
LastSegment(resource_type) ==
    Capitalize(Split(resource_type)[Len(Split(resource_type))])

\* type_order, arg_mermaid.py lines 67-89
type_order ==
    << "microsoft.app/containerapps",
       "microsoft.app/managedenvironments",
       "microsoft.web/sites",
       "microsoft.web/serverfarms",
       "microsoft.web/staticsites",
       "microsoft.containerregistry/registries",
       "microsoft.keyvault/vaults",
       "microsoft.dbforpostgresql/flexibleservers",
       "microsoft.documentdb/databaseaccounts",
       "microsoft.storage/storageaccounts",
       "microsoft.servicebus/namespaces",
       "microsoft.signalrservice/webpubsub",
       "microsoft.insights/components",
       "microsoft.insights/actiongroups",
       "microsoft.insights/metricalerts",
       "microsoft.operationalinsights/workspaces",
       "microsoft.apimanagement/service",
       "microsoft.network/networkwatchers",
       "microsoft.portal/dashboards",
       "microsoft.logic/workflows",
       "microsoft.eventgrid/systemtopics" >>

\* type_display_names, arg_mermaid.py lines 103-152 and arg_html.py lines 40-89
type_display_names ==
    << <<"microsoft.app/containerapps", "Container App">>,
       <<"microsoft.app/managedenvironments", "Container App Environment">>,
       <<"microsoft.web/sites", "Web App">>,
       <<"microsoft.web/serverfarms", "App Service Plan">>,
       <<"microsoft.web/staticsites", "Static Site">>,
       <<"microsoft.containerregistry/registries", "Container Registry">>,
       <<"microsoft.keyvault/vaults", "Key Vault">>,
       <<"microsoft.dbforpostgresql/flexibleservers", "PostgreSQL">>,
       <<"microsoft.sql/servers", "SQL Server">>,
       <<"microsoft.sql/servers/databases", "SQL Database">>,
       <<"microsoft.documentdb/databaseaccounts", "Cosmos DB">>,
       <<"microsoft.storage/storageaccounts", "Storage Account">>,
       <<"microsoft.servicebus/namespaces", "Service Bus">>,
       <<"microsoft.signalrservice/webpubsub", "Web PubSub">>,
       <<"microsoft.signalrservice/signalr", "SignalR Service">>,
       <<"microsoft.insights/components", "App Insights">>,
       <<"microsoft.insights/actiongroups", "Action Group">>,
       <<"microsoft.insights/metricalerts", "Metric Alert">>,
       <<"microsoft.operationalinsights/workspaces", "Log Analytics">>,
       <<"microsoft.apimanagement/service", "API Management">>,
       <<"microsoft.network/networkwatchers", "Network Watcher">>,
       <<"microsoft.network/virtualnetworks", "Virtual Network">>,
       <<"microsoft.network/networksecuritygroups", "Network Security Group">>,
       <<"microsoft.network/publicipaddresses", "Public IP">>,
       <<"microsoft.network/applicationgateways", "Application Gateway">>,
       <<"microsoft.network/loadbalancers", "Load Balancer">>,
       <<"microsoft.network/frontdoors", "Front Door">>,
       <<"microsoft.cdn/profiles", "CDN Profile">>,
       <<"microsoft.cdn/profiles/endpoints", "CDN Endpoint">>,
       <<"microsoft.portal/dashboards", "Dashboard">>,
       <<"microsoft.logic/workflows", "Logic App">>,
       <<"microsoft.eventgrid/systemtopics", "Event Grid">>,
       <<"microsoft.eventgrid/topics", "Event Grid Topic">>,
       <<"microsoft.eventhub/namespaces", "Event Hub">>,
       <<"microsoft.cache/redis", "Redis Cache">>,
       <<"microsoft.cognitiveservices/accounts", "Cognitive Service">>,
       <<"microsoft.machinelearningservices/workspaces", "ML Workspace">>,
       <<"microsoft.compute/virtualmachines", "Virtual Machine">>,
       <<"microsoft.compute/virtualmachinescalesets", "VM Scale Set">>,
       <<"microsoft.containerservice/managedclusters", "AKS Cluster">>,
       <<"microsoft.datafactory/factories", "Data Factory">>,
       <<"microsoft.synapse/workspaces", "Synapse Workspace">>,
       <<"microsoft.batch/batchaccounts", "Batch Account">>,
       <<"microsoft.search/searchservices", "Search Service">>,
       <<"microsoft.dbformysql/flexibleservers", "MySQL Server">>,
       <<"microsoft.dbformariadb/servers", "MariaDB Server">>,
       <<"microsoft.devices/iothubs", "IoT Hub">>,
       <<"microsoft.notificationhubs/namespaces", "Notification Hub">> >>

\* type_display_names.get(resource_type, <last segment, capitalized>),
\* arg_mermaid.py line 156 and arg_html.py line 93
TableName(resource_type) ==
    IF \E i \in 1..Len(type_display_names) : type_display_names[i][1] = resource_type
    THEN type_display_names[CHOOSE i \in 1..Len(type_display_names) :
                               type_display_names[i][1] = resource_type][2]
    ELSE LastSegment(resource_type)

\* get_display_name, arg_mermaid.py lines 155-194 and arg_html.py lines 92-131,
\* for a resource whose 'kind' is a str or absent
get_display_name(resource_type, resource) ==
    LET has_kind == Truthy(GetOrNone(resource, "kind"))
        kind == Lower(Get(resource, "kind", Str("")).v)
    IN  IF resource_type = "microsoft.web/sites" /\ has_kind
        THEN CASE Contains("functionapp", kind) -> "Function App"
               [] Contains("api", kind) -> "API App"
               [] Contains("container", kind) -> "Container Web App"
               [] Contains("linux", kind) -> "Linux Web App"
               [] OTHER -> TableName(resource_type)
        ELSE IF resource_type = "microsoft.storage/storageaccounts" /\ has_kind
        THEN CASE kind = "blobstorage" -> "Blob Storage"
               [] kind = "filestorage" -> "File Storage"
               [] kind = "blockblobstorage" -> "Block Blob Storage"
               [] Contains("storagev2", kind) -> "Storage Account v2"
               [] OTHER -> TableName(resource_type)
        ELSE IF resource_type = "microsoft.documentdb/databaseaccounts" /\ has_kind
        THEN CASE kind = "mongodb" -> "Cosmos DB (MongoDB)"
               [] kind = "cassandra" -> "Cosmos DB (Cassandra)"
               [] kind = "gremlin" -> "Cosmos DB (Gremlin)"
               [] kind = "table" -> "Cosmos DB (Table)"
               [] OTHER -> TableName(resource_type)
        ELSE TableName(resource_type)

\* d[key] raises KeyError
Missing(d, key) == ~HasKey(d, key)

\* the ids a loaded dependency mapping pairs, in the order .items() and the
\* inner loop visit them: <<resource_id, dep_id>>
RECURSIVE Edges(_)
Edges(mapping) ==
    IF Len(mapping.v) = 0 THEN <<>>
    ELSE LET resource_id == mapping.v[1][1]
             deps == mapping.v[1][2].v
         IN  [i \in 1..Len(deps) |-> <<resource_id, deps[i].v>>]
             \o Edges(Dict(Tail(mapping.v)))

\* arg_mermaid.py lines 51-57: one node per resource group, chr(66 + i)
RECURSIVE MermaidGroups(_, _)
MermaidGroups(groups, k) ==
    IF k = 0 THEN [id_map |-> <<>>, lines |-> <<>>]
    ELSE LET prev == MermaidGroups(groups, k - 1)
             rg == groups[k]
             node_id == Chr(66 + (k - 1))
         IN  [id_map |-> (GetOrNone(rg, "id").v :> node_id) @@ prev.id_map,
              lines |-> Append(prev.lines,
                               "    A --> " \o node_id \o "[\""
                               \o GetOrNone(rg, "name").v \o "\"]")]

\* arg_mermaid.py lines 59-65: the types in the order they are first seen
RECURSIVE FirstSeenTypes(_, _)
FirstSeenTypes(catalog, k) ==
    IF k = 0 THEN <<>>
    ELSE LET resource_type == GetOrNone(catalog[k], "type").v
             earlier == FirstSeenTypes(catalog, k - 1)
         IN  IF \E j \in 1..(k - 1) : GetOrNone(catalog[j], "type").v = resource_type
             THEN earlier
             ELSE Append(earlier, resource_type)

\* arg_mermaid.py lines 91-100: the known types in type_order's order, then
\* the remaining types in the order they were first seen
ordered_types(catalog) ==
    LET seen == FirstSeenTypes(catalog, Len(catalog))
        Seen(t) == \E i \in 1..Len(seen) : seen[i] = t
        Known(t) == \E i \in 1..Len(type_order) : type_order[i] = t
        Unknown(t) == ~Known(t)
    IN  SelectSeq(type_order, Seen) \o SelectSeq(seen, Unknown)

\* arg_mermaid.py lines 197 and 203: the resources in the order the nested
\* loops over ordered_types and resources_of_type visit them
RECURSIVE ByType(_, _)
ByType(catalog, types) ==
    IF Len(types) = 0 THEN <<>>
    ELSE LET SameType(r) == GetOrNone(r, "type").v = types[1]
         IN  SelectSeq(catalog, SameType) \o ByType(catalog, Tail(types))

\* arg_mermaid.py lines 217-221: the node of the first resource group whose
\* name is the resource's resourceGroup, "" (None) when there is none
RgNodeId(groups, id_map, resource) ==
    LET hits == {i \in 1..Len(groups) :
                    GetOrNone(groups[i], "name") = GetOrNone(resource, "resourceGroup")}
    IN  IF hits = {} THEN ""
        ELSE id_map[GetOrNone(groups[CHOOSE i \in hits : \A j \in hits : i <= j], "id").v]

\* arg_mermaid.py lines 204-209: the node id of the node_counter-th resource
NodeId(node_counter) ==
    IF node_counter < 26 THEN Chr(65 + node_counter)
    ELSE "node_" \o StrOfInt(node_counter - 25)

\* arg_mermaid.py lines 196-235: the resources, type by type.  The id is
\* entered into id_map (line 211) before the resource group is looked up, so
\* a resource that is skipped at line 224 keeps its id_map entry.
RECURSIVE MermaidResources(_, _, _)
MermaidResources(groups, ordered, k) ==
    IF k = 0 THEN MermaidGroups(groups, Len(groups)) @@ [node_counter |-> 0]
    ELSE LET prev == MermaidResources(groups, ordered, k - 1)
             resource == ordered[k]
             resource_type == GetOrNone(resource, "type").v
             heading ==
                 IF k = 1 \/ GetOrNone(ordered[k - 1], "type").v # resource_type
                 THEN <<"", "    %% " \o LastSegment(resource_type) \o " Resources">>
                 ELSE <<>>
             node_counter == prev.node_counter + 1
             node_id == NodeId(node_counter)
             id_map == (GetOrNone(resource, "id").v :> node_id) @@ prev.id_map
             rg_node_id == RgNodeId(groups, id_map, resource)
             resource_info ==
                 "<b>" \o get_display_name(resource_type, resource) \o "</b><br/>"
                 \o GetOrNone(resource, "name").v
                 \o (IF Truthy(GetOrNone(resource, "kind"))
                        /\ resource_type # "microsoft.web/sites"
                     THEN "<br/><i>(" \o GetOrNone(resource, "kind").v \o ")</i>"
                     ELSE "")
         IN  [id_map |-> id_map,
              node_counter |-> node_counter,
              lines |-> prev.lines \o heading \o
                        (IF rg_node_id = "" THEN <<>>
                         ELSE << "    " \o rg_node_id \o " --> " \o node_id
                                 \o "[\"" \o resource_info \o "\"]" >>)]

\* the keys of added_deps: the confirmed loop adds the str "S-T" (line 247),
\* the potential loop looks up and adds the tuple (S, T) (line 261), which
\* the model writes as its repr; a str and a tuple are never equal
StrKey(source_node, target_node) ==
    [k |-> "str", v |-> source_node \o "-" \o target_node]
TupleKey(source_node, target_node) ==
    [k |-> "tuple", v |-> "('" \o source_node \o "', '" \o target_node \o "')"]

\* arg_mermaid.py lines 241-250 (arrow " --> ", key StrKey) and lines 255-266
\* (arrow " -.-> ", key TupleKey): the edges of one mapping, skipping the ids
\* that are not in id_map and the keys already in added_deps
RECURSIVE MermaidEdges(_, _, _, _, _)
MermaidEdges(id_map, edges, k, potential, added_before) ==
    IF k = 0 THEN [lines |-> <<>>, added_deps |-> added_before]
    ELSE LET prev == MermaidEdges(id_map, edges, k - 1, potential, added_before)
             resource_id == edges[k][1]
             dep_id == edges[k][2]
         IN  IF resource_id \in DOMAIN id_map /\ dep_id \in DOMAIN id_map
             THEN LET source_node == id_map[resource_id]
                      target_node == id_map[dep_id]
                      dep_key == IF potential THEN TupleKey(source_node, target_node)
                                 ELSE StrKey(source_node, target_node)
                  IN  IF dep_key \in prev.added_deps THEN prev
                      ELSE [lines |-> Append(prev.lines,
                                             "    " \o source_node
                                             \o (IF potential THEN " -.-> " ELSE " --> ")
                                             \o target_node),
                            added_deps |-> prev.added_deps \cup {dep_key}]
             ELSE prev

\* the key of the KeyError that ends generate_mermaid_diagram, "" when it
\* returns: a resource group without 'id' or 'name' (lines 55-56), a resource
\* without 'type' (line 61), then, in the order of the nodes, a resource
\* without 'id' (line 211), without 'resourceGroup' when there are groups to
\* compare it with (line 219), or without 'name' when its group is found
\* (line 229)
MermaidKeyError(catalog, groups) ==
    LET bad_groups == {i \in 1..Len(groups) :
                          Missing(groups[i], "id") \/ Missing(groups[i], "name")}
        ordered == ByType(catalog, ordered_types(catalog))
        FirstMissing(r) ==
            IF Missing(r, "id") THEN "id"
            ELSE IF Len(groups) > 0 /\ Missing(r, "resourceGroup") THEN "resourceGroup"
            ELSE IF /\ Missing(r, "name")
                    /\ \E j \in 1..Len(groups) :
                          GetOrNone(groups[j], "name") = GetOrNone(r, "resourceGroup")
                 THEN "name"
            ELSE ""
        bad == {k \in 1..Len(ordered) : FirstMissing(ordered[k]) # ""}
    IN  IF bad_groups # {}
        THEN (IF Missing(groups[CHOOSE i \in bad_groups : \A j \in bad_groups : i <= j],
                         "id")
              THEN "id" ELSE "name")
        ELSE IF \E i \in 1..Len(catalog) : Missing(catalog[i], "type") THEN "type"
        ELSE IF bad # {}
        THEN FirstMissing(ordered[CHOOSE k \in bad : \A j \in bad : k <= j])
        ELSE ""

\* generate_mermaid_diagram, arg_mermaid.py lines 22-268: the lines of the
\* returned text, or the key of the KeyError raised
generate_mermaid_diagram(sub_id, catalog, groups, confirmed, potential, include) ==
    IF MermaidKeyError(catalog, groups) # ""
    THEN [err |-> MermaidKeyError(catalog, groups), lines |-> <<>>]
    ELSE
    LET ordered == ByType(catalog, ordered_types(catalog))
        nodes == MermaidResources(groups, ordered, Len(ordered))
        solid == MermaidEdges(nodes.id_map, Edges(confirmed), Len(Edges(confirmed)),
                              FALSE, {})
        dotted == MermaidEdges(nodes.id_map, Edges(potential), Len(Edges(potential)),
                               TRUE, solid.added_deps)
    IN  [err |-> "",
         lines |-> << "graph TD;",
                      "    A[Subscription<br/>"
                      \o truncate_subscription_id(sub_id) \o "]",
                      "",
                      "    %% Resource Groups" >>
                   \o nodes.lines
                   \o << "", "    %% Confirmed Dependencies" >>
                   \o solid.lines
                   \o (IF include
                       THEN << "", "    %% Potential Dependencies" >> \o dotted.lines
                       ELSE <<>>)]

\* arg_html.py lines 141-148 and 151-168: the subscription node, then one node
\* and one "contains" link per resource group.  A node or a link of the model
\* is the dict that json.dumps writes at lines 717-718; the keys a node lacks
\* ('display_name' and 'kind' outside resources) are "" in the model.
RECURSIVE HtmlGroups(_, _, _)
HtmlGroups(sub_id, groups, k) ==
    IF k = 0
    THEN [nodes |-> << [id |-> sub_id,
                        name |-> "Subscription "
                                 \o truncate_subscription_id(sub_id),
                        display_name |-> "", type |-> "subscription", kind |-> "",
                        group |-> 0, level |-> 0] >>,
          links |-> <<>>,
          node_indices |-> (sub_id :> 0)]
    ELSE LET prev == HtmlGroups(sub_id, groups, k - 1)
             rg == groups[k]
             node_index == Len(prev.nodes)
         IN  [nodes |-> Append(prev.nodes,
                               [id |-> GetOrNone(rg, "id").v,
                                name |-> GetOrNone(rg, "name").v,
                                display_name |-> "", type |-> "resourceGroup",
                                kind |-> "", group |-> 1, level |-> 1]),
              links |-> Append(prev.links,
                               [source |-> prev.node_indices[sub_id],
                                target |-> node_index, value |-> 1,
                                type |-> "contains"]),
              node_indices |-> (GetOrNone(rg, "id").v :> node_index)
                               @@ prev.node_indices]

\* arg_html.py lines 173-177: the id of the first resource group whose name is
\* the resource's resourceGroup, "" (None) when there is none
RgId(groups, resource) ==
    LET hits == {i \in 1..Len(groups) :
                    GetOrNone(groups[i], "name") = GetOrNone(resource, "resourceGroup")}
    IN  IF hits = {} THEN ""
        ELSE GetOrNone(groups[CHOOSE i \in hits : \A j \in hits : i <= j], "id").v

\* arg_html.py lines 171-205: one node and one "contains" link per resource
\* whose resource group is found; the others are skipped (line 180) before
\* anything is recorded for them
RECURSIVE HtmlResources(_, _, _, _)
HtmlResources(sub_id, groups, catalog, k) ==
    IF k = 0 THEN HtmlGroups(sub_id, groups, Len(groups))
    ELSE LET prev == HtmlResources(sub_id, groups, catalog, k - 1)
             resource == catalog[k]
             rg_id == RgId(groups, resource)
             resource_type == GetOrNone(resource, "type").v
             node_index == Len(prev.nodes)
         IN  IF rg_id = "" THEN prev
             ELSE [nodes |-> Append(prev.nodes,
                                    [id |-> GetOrNone(resource, "id").v,
                                     name |-> GetOrNone(resource, "name").v,
                                     display_name |->
                                         get_display_name(resource_type, resource),
                                     type |-> resource_type,
                                     kind |-> Get(resource, "kind", Str("")).v,
                                     group |-> 2, level |-> 2]),
                   links |-> Append(prev.links,
                                    [source |-> prev.node_indices[rg_id],
                                     target |-> node_index, value |-> 1,
                                     type |-> "contains"]),
                   node_indices |-> (GetOrNone(resource, "id").v :> node_index)
                                    @@ prev.node_indices]

\* arg_html.py lines 208-219 (type "depends") and 222-234 (type "potential"):
\* one link per pair of the mapping whose two ids are in node_indices
RECURSIVE HtmlLinks(_, _, _, _)
HtmlLinks(node_indices, edges, k, type) ==
    IF k = 0 THEN <<>>
    ELSE LET prev == HtmlLinks(node_indices, edges, k - 1, type)
             resource_id == edges[k][1]
             dep_id == edges[k][2]
         IN  IF resource_id \in DOMAIN node_indices /\ dep_id \in DOMAIN node_indices
             THEN Append(prev, [source |-> node_indices[resource_id],
                                target |-> node_indices[dep_id],
                                value |-> 2, type |-> type])
             ELSE prev

\* the key of the KeyError that ends generate_html_diagram, "" when it
\* returns: a resource group without 'id' or 'name' (lines 154-155), then, in
\* the order of the catalog, a resource without 'resourceGroup' when there
\* are groups to compare it with (line 175), or a resource of a found group
\* without 'type' (line 184), 'id' or 'name' (lines 189-190)
HtmlKeyError(catalog, groups) ==
    LET bad_groups == {i \in 1..Len(groups) :
                          Missing(groups[i], "id") \/ Missing(groups[i], "name")}
        FirstMissing(r) ==
            IF Len(groups) > 0 /\ Missing(r, "resourceGroup") THEN "resourceGroup"
            ELSE IF RgId(groups, r) = "" THEN ""
            ELSE IF Missing(r, "type") THEN "type"
            ELSE IF Missing(r, "id") THEN "id"
            ELSE IF Missing(r, "name") THEN "name"
            ELSE ""
        bad == {k \in 1..Len(catalog) : FirstMissing(catalog[k]) # ""}
    IN  IF bad_groups # {}
        THEN (IF Missing(groups[CHOOSE i \in bad_groups : \A j \in bad_groups : i <= j],
                         "id")
              THEN "id" ELSE "name")
        ELSE IF bad # {}
        THEN FirstMissing(catalog[CHOOSE k \in bad : \A j \in bad : k <= j])
        ELSE ""

\* generate_html_diagram, arg_html.py lines 23-726: the nodes and links that
\* are written into the page, or the key of the KeyError raised
generate_html_diagram(sub_id, catalog, groups, confirmed, potential, include) ==
    IF HtmlKeyError(catalog, groups) # ""
    THEN [err |-> HtmlKeyError(catalog, groups), nodes |-> <<>>, links |-> <<>>]
    ELSE
    LET drawn == HtmlResources(sub_id, groups, catalog, Len(catalog))
    IN  [err |-> "",
         nodes |-> drawn.nodes,
         links |-> drawn.links
                   \o HtmlLinks(drawn.node_indices, Edges(confirmed),
                                Len(Edges(confirmed)), "depends")
                   \o (IF include
                       THEN HtmlLinks(drawn.node_indices, Edges(potential),
                                      Len(Edges(potential)), "potential")
                       ELSE <<>>)]

-----------------------------------------------------------------------------
(* main, azure_resource_graph.py lines 1806-1986, run with --data --html    *)
(* --md: the snapshot is saved, loaded back and rendered from what was      *)
(* loaded                                                                    *)

\* remove_none, lines 1793-1804: a dict loses every key whose cleaned value
\* is falsy, a list loses its None items, anything else is kept
RECURSIVE remove_none(_)
remove_none(d) ==
    CASE d.t = "dict" ->
           LET clean == [i \in 1..Len(d.v) |-> <<d.v[i][1], remove_none(d.v[i][2])>>]
               Kept(pair) == Truthy(pair[2])
           IN  Dict(SelectSeq(clean, Kept))
      [] d.t = "list" ->
           LET NotNone(item) == item.t # "null"
               kept == SelectSeq(d.v, NotNone)
           IN  List([i \in 1..Len(kept) |-> remove_none(kept[i])])
      [] OTHER -> d

\* text[i]
CharAt(text, i) == SubSeq(text, i, i)

\* the position of the quote that closes the string literal opened at
\* position i: the first later quote preceded by an even number of backslashes
ClosingQuote(text, i) ==
    LET Backslashes(j) ==
            CHOOSE k \in 0..(j - i - 1) :
                /\ \A m \in 1..k : CharAt(text, j - m) = "\\"
                /\ (k = j - i - 1 \/ CharAt(text, j - k - 1) # "\\")
        Closes(j) == CharAt(text, j) = "\"" /\ Backslashes(j) % 2 = 0
    IN  CHOOSE j \in (i + 1)..Len(text) :
            Closes(j) /\ \A m \in (i + 1)..(j - 1) : ~Closes(m)

RECURSIVE Unescape(_)
\* the str a JSON string literal's body denotes: \" is " and \\ is \
Unescape(body) ==
    IF ~Contains("\\", body) THEN body
    ELSE LET p == CHOOSE j \in 1..Len(body) :
                     CharAt(body, j) = "\\" /\ \A m \in 1..(j - 1) : CharAt(body, m) # "\\"
         IN  SubSeq(body, 1, p - 1) \o CharAt(body, p + 1)
             \o Unescape(SubSeq(body, p + 2, Len(body)))

RECURSIVE ParseValue(_, _)
RECURSIVE ParseItems(_, _, _, _)
\* the elements of a list (closer "]") or the pairs of a dict (closer "}")
\* from position i on, after the elements in acc: [v, next]
ParseItems(text, i, acc, closer) ==
    IF CharAt(text, i) = closer
    THEN [v |-> IF closer = "]" THEN List(acc) ELSE Dict(acc), next |-> i + 1]
    ELSE LET start == IF CharAt(text, i) = "," THEN i + 2 ELSE i
         IN  IF closer = "]"
             THEN LET item == ParseValue(text, start)
                  IN  ParseItems(text, item.next, Append(acc, item.v), closer)
             ELSE LET key == ParseValue(text, start)
                      value == ParseValue(text, key.next + 2)
                  IN  ParseItems(text, value.next, Append(acc, <<key.v.v, value.v>>),
                                 closer)

\* the JSON value that starts at position i of text and the position after it
ParseValue(text, i) ==
    CASE CharAt(text, i) = "n" -> [v |-> Null, next |-> i + 4]
      [] CharAt(text, i) = "\"" ->
           LET j == ClosingQuote(text, i)
           IN  [v |-> Str(Unescape(SubSeq(text, i + 1, j - 1))), next |-> j + 1]
      [] CharAt(text, i) = "[" -> ParseItems(text, i + 1, <<>>, "]")
      [] OTHER -> ParseItems(text, i + 1, <<>>, "}")

\* json.load, line 1880, of a text json.dump wrote at line 1870 (indent=2
\* changes the white space between the tokens and nothing else)
Loads(text) == ParseValue(text, 1).v

\* records as the Resource Graph queries project them: list_resource_groups
\* (line 231: name, id) and list_resources_basic (line 990: id, name, type,
\* resourceGroup, kind, location, tags, properties)
rg1 == Dict(<< <<"name", Str("rg1")>>, <<"id", Str("/s/rg1")>> >>)
rg2 == Dict(<< <<"name", Str("rg2")>>, <<"id", Str("/s/rg2")>> >>)

Listed(id, name, type, resourceGroup, kind) ==
    Dict(<< <<"id", Str(id)>>, <<"name", Str(name)>>, <<"type", Str(type)>>,
            <<"resourceGroup", Str(resourceGroup)>>, <<"kind", Str(kind)>>,
            <<"location", Str("eastus")>>, <<"tags", Null>>,
            <<"properties", EmptyDict>> >>)

\* a function app and a storage account of rg1, a virtual machine of rg2
fn1 == Listed("/s/rg1/fn1", "fn1", "microsoft.web/sites", "rg1", "functionapp,linux")
sa1 == Listed("/s/rg1/sa1", "sa1", "microsoft.storage/storageaccounts", "rg1",
              "StorageV2")
vm2 == Listed("/s/rg2/vm2", "vm2", "microsoft.compute/virtualmachines", "rg2", "")
\* a key vault whose resourceGroup differs from the group's name in letter
\* case, and a resource that is in no resource group
kv1 == Listed("/s/rg1/kv1", "kv1", "microsoft.keyvault/vaults", "RG1", "")
pol1 == Listed("/s/pol1", "pol1", "microsoft.authorization/policyassignments", "", "")

\* what get_resource_data returned to main: the subscription, the resources,
\* the resource groups, and the pairs <<source id, target id>> the dependency
\* mappings of the model are drawn from
RenderScenarios ==
    << [resources |-> <<fn1, sa1>>, resource_groups |-> <<rg1>>,
        pairs |-> {<<"/s/rg1/fn1", "/s/rg1/sa1">>, <<"/s/rg1/sa1", "/s/rg1/fn1">>,
                   <<"/s/rg1/fn1", "/s/rg1/gone">>}],
       [resources |-> <<sa1, fn1, kv1>>, resource_groups |-> <<rg1, rg2>>,
        pairs |-> {<<"/s/rg1/fn1", "/s/rg1/sa1">>, <<"/s/rg1/fn1", "/s/rg1/kv1">>,
                   <<"/s/rg1/kv1", "/s/rg1/sa1">>}],
       [resources |-> <<vm2, fn1>>, resource_groups |-> <<rg1, rg2>>,
        pairs |-> {<<"/s/rg2/vm2", "/s/rg1/fn1">>, <<"/s/rg1/fn1", "/s/rg2/vm2">>}],
       [resources |-> <<fn1, pol1>>, resource_groups |-> <<rg1>>,
        pairs |-> {<<"/s/rg1/fn1", "/s/pol1">>}] >>

SubscriptionIds == {"12345678-abcd-ef00"}

\* the largest number of pairs in each dependency mapping main starts from
MaxEdges == 2

\* the ids of a catalog in the order InitializeSets enters them (lines 1163-1174)
RECURSIVE KeyOrder(_, _)
KeyOrder(catalog, k) ==
    IF k = 0 THEN <<>>
    ELSE LET earlier == KeyOrder(catalog, k - 1)
             id == GetOrNone(catalog[k], "id").v
         IN  IF \E j \in 1..Len(earlier) : earlier[j] = id THEN earlier
             ELSE Append(earlier, id)

\* a result of get_resource_dependencies: every id of the catalog has an
\* entry (lines 1163-1174), with the targets the pairs give it
MappingOf(catalog, pairs) ==
    [id \in {GetOrNone(catalog[k], "id").v : k \in 1..Len(catalog)}
        |-> {p[2] : p \in {q \in pairs : q[1] = id}}]

\* main after get_resource_data has returned (line 1845)
InitMain ==
    /\ \E i \in 1..Len(RenderScenarios), sub \in SubscriptionIds :
          \E conf, pot \in SUBSET RenderScenarios[i].pairs :
             /\ Cardinality(conf) <= MaxEdges
             /\ Cardinality(pot) <= MaxEdges
             /\ subscription_id = sub
             /\ resources = RenderScenarios[i].resources
             /\ resource_groups = RenderScenarios[i].resource_groups
             /\ confirmed_dependencies = MappingOf(RenderScenarios[i].resources, conf)
             /\ potential_dependencies = MappingOf(RenderScenarios[i].resources, pot)
    /\ include_potential_deps \in BOOLEAN
    /\ pc = "main"
    /\ idx = 0
    /\ _failed_operations_log = <<>>
    /\ run = 1
    /\ first_result = [variant |-> "none", order |-> <<>>,
                       confirmed |-> EmptyMapping, potential |-> EmptyMapping]
    /\ lookups = {}
    /\ main_data = Null
    /\ data_file = ""
    /\ data_from_output = Null
    /\ html = [nodes |-> <<>>, links |-> <<>>]
    /\ mermaid = <<>>
    /\ NotListing
    /\ NotInTools

\* the lists list(v) can give for a set v (lines 1848 and 1856): its elements
\* in any order
ListsOf(v) ==
    {List([i \in 1..Cardinality(v) |-> Str(order[i])]) :
        order \in {f \in [1..Cardinality(v) -> v] :
                      \A i, j \in 1..Cardinality(v) : i # j => f[i] # f[j]}}

\* {k: list(v) for k, v in mapping.items()}, lines 1848 and 1856
Serializable(mapping, keys) ==
    {Dict([k \in 1..Len(keys) |-> <<keys[k], lists[keys[k]]>>]) :
        lists \in {f \in [DOMAIN mapping -> UNION {ListsOf(mapping[id]) : id \in DOMAIN mapping}] :
                      \A id \in DOMAIN mapping : f[id] \in ListsOf(mapping[id])}}

\* lines 1848-1872: `data` is built and remove_none(data) is written to the
\* data file ('metadata', which main never reads back, is left out)
SaveData ==
    /\ pc = "main"
    /\ \E conf \in Serializable(confirmed_dependencies, KeyOrder(resources, Len(resources))),
          pot \in Serializable(potential_dependencies, KeyOrder(resources, Len(resources))) :
          /\ main_data' = Dict(<< <<"subscription_id", Str(subscription_id)>>,
                             <<"resources", List(resources)>>,
                             <<"resource_groups", List(resource_groups)>>,
                             <<"confirmed_dependencies", conf>>,
                             <<"potential_dependencies", pot>> >>)
          /\ data_file' = Dumps(remove_none(main_data'))
    /\ pc' = "saved"
    /\ UNCHANGED <<resources, idx, confirmed_dependencies, potential_dependencies,
                   _failed_operations_log, run, first_result, lookups,
                   subscription_id, resource_groups, include_potential_deps,
                   data_from_output, html, mermaid, list_vars, tool_vars>>

\* lines 1868-1875 and 1880: writing the data file fails part-way (IOError,
\* the device is full), the failure is logged, and json.load at line 1880
\* raises on the unfinished text, which ends main
SaveDataFails ==
    /\ pc = "main"
    /\ _failed_operations_log' =
          Append(_failed_operations_log,
                 "Error saving data to file azure_resource_graph.json: "
                 \o "[Errno 28] No space left on device")
    /\ pc' = "raised"
    /\ UNCHANGED <<resources, idx, confirmed_dependencies, potential_dependencies,
                   run, first_result, lookups, main_vars, list_vars, tool_vars>>

\* the keys main reads from the loaded snapshot, lines 1891-1895
SnapshotKeys ==
    {"subscription_id", "resources", "resource_groups", "confirmed_dependencies",
     "potential_dependencies"}

\* lines 1878-1898: the data file is loaded and main's variables are bound to
\* what it holds; a key the snapshot lacks is a KeyError that ends main
LoadData ==
    /\ pc = "saved"
    /\ data_from_output' = Loads(data_file)
    /\ IF \E key \in SnapshotKeys : Missing(data_from_output', key)
       THEN /\ pc' = "raised"
            /\ UNCHANGED <<subscription_id, resources, resource_groups,
                           confirmed_dependencies, potential_dependencies>>
       ELSE /\ pc' = "loaded"
            /\ subscription_id' = GetOrNone(data_from_output', "subscription_id").v
            /\ resources' = GetOrNone(data_from_output', "resources").v
            /\ resource_groups' = GetOrNone(data_from_output', "resource_groups").v
            /\ confirmed_dependencies' =
                  GetOrNone(data_from_output', "confirmed_dependencies")
            /\ potential_dependencies' =
                  GetOrNone(data_from_output', "potential_dependencies")
    /\ UNCHANGED <<idx, _failed_operations_log, run, first_result, lookups,
                   include_potential_deps, main_data, data_file, html, mermaid,
                   list_vars, tool_vars>>

\* lines 1901-1919: the HTML diagram; an exception of the renderer is logged
GenerateHtml ==
    /\ pc = "loaded"
    /\ LET out == generate_html_diagram(subscription_id, resources, resource_groups,
                                        confirmed_dependencies, potential_dependencies,
                                        include_potential_deps)
       IN  IF out.err # ""
           THEN /\ _failed_operations_log' =
                      Append(_failed_operations_log,
                             "Error generating HTML diagram: '" \o out.err \o "'")
                /\ UNCHANGED html
           ELSE /\ html' = [nodes |-> out.nodes, links |-> out.links]
                /\ UNCHANGED _failed_operations_log
    /\ pc' = "html"
    /\ UNCHANGED <<resources, idx, confirmed_dependencies, potential_dependencies,
                   run, first_result, lookups, subscription_id, resource_groups,
                   include_potential_deps, main_data, data_file, data_from_output,
                   mermaid, list_vars, tool_vars>>

\* a variant of GenerateMermaid: the renderer groups the resources by sorting
\* the caller's list by type instead of building resource_by_type
GenerateMermaidInPlace ==
    /\ pc = "html"
    /\ LET out == generate_mermaid_diagram(subscription_id, resources, resource_groups,
                                           confirmed_dependencies,
                                           potential_dependencies,
                                           include_potential_deps)
       IN  IF out.err # ""
           THEN /\ _failed_operations_log' =
                      Append(_failed_operations_log,
                             "Error generating Markdown diagram: '" \o out.err \o "'")
                /\ UNCHANGED <<mermaid, resources>>
           ELSE /\ mermaid' = out.lines
                /\ resources' = ByType(resources, ordered_types(resources))
                /\ UNCHANGED _failed_operations_log
    /\ pc' = "md"
    /\ UNCHANGED <<idx, confirmed_dependencies, potential_dependencies,
                   run, first_result, lookups, subscription_id, resource_groups,
                   include_potential_deps, main_data, data_file, data_from_output, html,
                   list_vars, tool_vars>>

\* lines 1922-1955: the Mermaid diagram; an exception of the renderer is logged
GenerateMermaid ==
    /\ pc = "html"
    /\ LET out == generate_mermaid_diagram(subscription_id, resources, resource_groups,
                                           confirmed_dependencies,
                                           potential_dependencies,
                                           include_potential_deps)
       IN  IF out.err # ""
           THEN /\ _failed_operations_log' =
                      Append(_failed_operations_log,
                             "Error generating Markdown diagram: '" \o out.err \o "'")
                /\ UNCHANGED mermaid
           ELSE /\ mermaid' = out.lines
                /\ UNCHANGED _failed_operations_log
    /\ pc' = "md"
    /\ UNCHANGED <<resources, idx, confirmed_dependencies, potential_dependencies,
                   run, first_result, lookups, subscription_id, resource_groups,
                   include_potential_deps, main_data, data_file, data_from_output, html,
                   list_vars, tool_vars>>

NextMain ==
    \/ SaveData
    \/ SaveDataFails
    \/ LoadData
    \/ GenerateHtml
    \/ GenerateMermaid

SpecMain == InitMain /\ [][NextMain]_vars

-----------------------------------------------------------------------------
(* list_resources, azure_resource_graph.py lines 1039-1151, with             *)
(* list_resources_basic (lines 979-1037) and the retrying wrapper of the az  *)
(* commands (lines 46-86 and 146-185).  What the az commands answer is the   *)
(* environment's choice.                                                     *)

\* an f-string applied to a field that is a str or None
Fmt(d) == IF d.t = "null" THEN "None" ELSE d.v

RECURSIVE ReprItems(_)
ReprItems(words) ==
    IF Len(words) = 0 THEN ""
    ELSE "'" \o words[1] \o "'" \o (IF Len(words) > 1 THEN ", " ELSE "")
         \o ReprItems(Tail(words))

\* repr of a list of str
Repr(words) == "[" \o ReprItems(words) \o "]"

RECURSIVE JoinWords(_)
\* ' '.join(words)
JoinWords(words) ==
    IF Len(words) = 0 THEN ""
    ELSE words[1] \o (IF Len(words) > 1 THEN " " ELSE "") \o JoinWords(Tail(words))

\* max_retries + 1, line 59
Attempts == 4

\* f"{delay:.2f}" at the i-th attempt (i from 0): 1.0 doubled i times
DelayText(i) == <<"1.00", "2.00", "4.00", "8.00">>[i + 1]

\* how one attempt of an az command can end: it answers ("ok"), az exits
\* with a throttling message on stderr ("throttled"), az exits with another
\* error ("failed"), or the process cannot be run at all ("unexpected")
Stderr(outcome) == IF outcome = "throttled" THEN "TooManyRequests" ELSE "ResourceNotFound"

\* str(e) of the exception an attempt raises
ErrorText(outcome, full_command) ==
    IF outcome = "unexpected" THEN "[Errno 2] No such file or directory: 'az'"
    ELSE "Command '" \o Repr(full_command) \o "' returned non-zero exit status 1."

\* run_az_command_list under retry_with_backoff, lines 46-86 and 146-185: the
\* attempts end as `outcomes` says, one after the other.  The result tells
\* whether the call raised, str(e) of what it raised, and the log entries.
RECURSIVE retry_with_backoff(_, _, _, _)
retry_with_backoff(outcomes, command, sub_id, i) ==
    LET full_command == command \o <<"--subscription", sub_id>>
        outcome == outcomes[i + 1]
        e == ErrorText(outcome, full_command)
        executing == <<"Error executing command " \o JoinWords(full_command) \o ": "
                       \o Stderr(outcome)>>
        again == IF i < Attempts - 1
                 THEN retry_with_backoff(outcomes, command, sub_id, i + 1)
                 ELSE [raised |-> TRUE, e |-> e, log |-> <<>>]
    IN  CASE outcome = "ok" -> [raised |-> FALSE, e |-> "", log |-> <<>>]
          [] outcome = "throttled" ->
               [again EXCEPT !.log =
                   executing
                   \o <<"Attempt " \o StrOfInt(i + 1) \o "/" \o StrOfInt(Attempts)
                        \o ": Command failed due to throttling. Retrying in "
                        \o DelayText(i) \o "s. Command: " \o Repr(command)>>
                   \o (IF i < Attempts - 1 THEN <<>>
                       ELSE <<"Max retries reached for command: " \o Repr(command)
                              \o ". Giving up.">>)
                   \o @]
          [] outcome = "failed" ->
               [raised |-> TRUE, e |-> e,
                log |-> executing
                        \o <<"Non retryable error encountered, Error: " \o e>>]
          [] OTHER ->
               [again EXCEPT !.log =
                   <<"Attempt " \o StrOfInt(i + 1) \o "/" \o StrOfInt(Attempts)
                     \o ": An unexpected error occurred. Retrying in "
                     \o DelayText(i) \o "s. Error: " \o e>>
                   \o (IF i < Attempts - 1 THEN <<>>
                       ELSE <<"Max retries reached for unexpected error. Giving up.">>)
                   \o @]

\* the ways the attempts of one call can go: attempts that are retried
\* (throttled, unexpected) until one answers or fails for good, or until the
\* last attempt
AttemptPatterns ==
    { <<"ok">>, <<"failed">>,
      <<"throttled", "unexpected", "ok">>,
      <<"throttled", "throttled", "throttled", "throttled">>,
      <<"unexpected", "unexpected", "unexpected", "unexpected">>,
      <<"unexpected", "throttled", "failed">> }

\* the types list_resources_basic leaves out, lines 1022-1028 (compared as
\* written: the first is never equal to a lower-case type)
SkippedTypes ==
    {"Microsoft.Insights/metricalerts", "microsoft.eventgrid/systemtopics",
     "microsoft.portal/dashboards", "microsoft.insights/actiongroups",
     "microsoft.alertsmanagement/smartdetectoralertrules"}

\* list_resources_basic, lines 979-1037, on the rows the Resource Graph query
\* answered (run_az_command gives {'data': rows}, with no rows when the
\* query failed): the rows whose type is not left out
list_resources_basic(rows) ==
    LET Listable(row) == Get(row, "type", Str("")).v \notin SkippedTypes
    IN  SelectSeq(rows, Listable)

\* what the three enrichment functions answer when they find something
\* (get_environment_variables: the customData of a virtual machine, line 620)
NetworkInfoFound == Dict(<< <<"privateIps", List(<<Str("10.0.0.4")>>)>> >>)
EnvVarsFound == Dict(<< <<"customData", Str("KEY=value")>> >>)
SpecificConfigFound == Dict(<< <<"sku", Str("Standard")>> >>)

\* get_network_information (lines 249-455), get_environment_variables (lines
\* 543-737) and get_resource_specific_config (lines 739-977) have one shape:
\* without resourceGroup or name they log and answer {}; otherwise the body
\* runs inside try/except Exception, so that the call answers what it found
\* ("found"), {} because nothing applies ("none"), or {} after logging the
\* exception ("failed").  `what` and `label` are the words of the two log
\* messages; the az commands inside the body are not followed.
Enrichment(resource, outcome, what, label, found) ==
    LET resource_type == Lower(Get(resource, "type", Str("")).v)
        resource_group == Get(resource, "resourceGroup", Str(""))
        name == Get(resource, "name", Str(""))
    IN  IF ~Truthy(resource_group) \/ ~Truthy(name)
        THEN [v |-> EmptyDict,
              log |-> <<"Skipping " \o what \o " for resource " \o Fmt(name)
                        \o " due to missing resourceGroup or name.">>]
        ELSE CASE outcome = "found" -> [v |-> found, log |-> <<>>]
               [] outcome = "none" -> [v |-> EmptyDict, log |-> <<>>]
               [] OTHER ->
                    [v |-> EmptyDict,
                     log |-> <<"Error getting " \o label \o " for " \o Fmt(name)
                               \o " (" \o resource_type \o "): Command failed">>]

\* what the two az webapp config commands of lines 557-572 put in env_vars
\* when each answers a list of settings
WebAppSettingsFound ==
    Dict(<< <<"appSettings", Dict(<< <<"KEY", Str("value")>> >>)>>,
            <<"connectionStrings",
              Dict(<< <<"DB", Str("Server=tcp:myserver.database.windows.net")>> >>)>> >>)

\* what lines 576-602 put in env_vars: the settings of the function app
FunctionAppSettingsFound ==
    Dict(<< <<"functionAppSettings",
              Dict(<< <<"AzureWebJobsStorage",
                        Str("https://sa1.blob.core.windows.net")>> >>)>> >>)

\* the test of line 556, repeated word for word at line 575
IsFunctionAppSite(resource_type, kind) ==
    Contains("microsoft.web/sites", resource_type) /\ Contains("functionapp", Lower(kind))

\* get_environment_variables, lines 543-737: the if/elif chain of lines
\* 556-716 picks the first branch whose test holds, so the branch of line 575
\* runs only when the same test failed at line 556; a type that no branch
\* names leaves env_vars empty
get_environment_variables(resource, outcome) ==
    LET resource_type == Lower(Get(resource, "type", Str("")).v)
        kind == Get(resource, "kind", Str("")).v
        found ==
            IF IsFunctionAppSite(resource_type, kind) THEN WebAppSettingsFound
            ELSE IF IsFunctionAppSite(resource_type, kind) THEN FunctionAppSettingsFound
            ELSE IF \/ resource_type \in {"microsoft.compute/virtualmachines",
                                          "microsoft.compute/virtualmachinescalesets"}
                    \/ Contains("microsoft.containerinstance/containergroups",
                                resource_type)
            THEN EnvVarsFound
            ELSE EmptyDict
    IN  Enrichment(resource, outcome, "environment variables",
                   "environment variables", found)

\* a variant of SetKey: a dict that holds the new key alone
SetKeyAlone(d, key, value) == Dict(<< <<key, value>> >>)

\* enhanced_resource[key] = value
SetKey(d, key, value) ==
    IF HasKey(d, key)
    THEN Dict([i \in 1..Len(d.v) |->
                  IF d.v[i][1] = key THEN <<key, value>> ELSE d.v[i]])
    ELSE Dict(Append(d.v, <<key, value>>))

\* lines 1085-1109: the detail fetch for virtual machines and scale sets (an
\* az command that is retried, its exception logged at line 1109) and for
\* function apps (get_function_app_full_config, which never raises)
DetailFetch(resource, sub_id, attempts) ==
    LET resource_type == GetOrNone(resource, "type").v
        resource_group == Get(resource, "resourceGroup", Str(""))
        resource_name == Get(resource, "name", Str(""))
        command ==
            IF resource_type = "microsoft.compute/virtualmachines"
            THEN <<"az", "vm", "show", "--resource-group", resource_group.v,
                   "--name", resource_name.v, "--show-details">>
            ELSE <<"az", "vmss", "show", "--resource-group", resource_group.v,
                   "--name", resource_name.v>>
        call == retry_with_backoff(attempts, command, sub_id, 0)
    IN  IF ~Truthy(resource_group) \/ ~Truthy(resource_name) THEN <<>>
        ELSE IF resource_type = "microsoft.web/sites" THEN <<>>
        ELSE call.log
             \o (IF call.raised
                 THEN <<"Error fetching detailed data for " \o resource_name.v
                        \o " (" \o resource_type \o "): " \o call.e>>
                 ELSE <<>>)

\* lines 1126-1142: the properties query; run_az_command always answers a
\* dict {'data': rows}.  "ok": the first row is a dict with the resource's
\* properties; "noprops": the first row is a dict without 'properties', for
\* which line 1133 takes {}; "baddata": the first row is not a dict;
\* "nodata": no rows
PropertiesQuery(resource, enhanced_resource, outcome) ==
    LET resource_id == GetOrNone(resource, "id").v
    IN  CASE outcome = "ok" ->
               [v |-> SetKey(enhanced_resource, "properties",
                             Get(resource, "properties", EmptyDict)),
                log |-> <<>>]
          [] outcome = "noprops" ->
               [v |-> SetKey(enhanced_resource, "properties", EmptyDict),
                log |-> <<>>]
          [] outcome = "baddata" ->
               [v |-> enhanced_resource,
                log |-> <<"Properties query for " \o resource_id
                          \o " returned unexpected data format: {'data': ['x']}">>]
          [] OTHER ->
               [v |-> enhanced_resource,
                log |-> <<"Properties query for " \o resource_id
                          \o " returned no data or unexpected type: {'data': []}">>]

\* lines 1063-1148, one turn of the loop: the record appended to
\* enhanced_resources for `resource` and the entries logged on the way.
\* `answers` is what the environment answers to the calls of this turn.
EnhanceOne(resource, sub_id, answers) ==
    LET resource_name == Get(resource, "name", Str("Unknown"))
        resource_id == GetOrNone(resource, "id")
        resource_type == GetOrNone(resource, "type")
        kind == Get(resource, "kind", Str(""))
        \* line 1085 evaluates kind.lower() for a web site
        kind_raises == resource_type.v = "microsoft.web/sites" /\ ~IsStr(kind)
        needs_detail ==
            \/ resource_type.v \in {"microsoft.compute/virtualmachines",
                                    "microsoft.compute/virtualmachinescalesets"}
            \/ /\ resource_type.v = "microsoft.web/sites"
               /\ Contains("functionapp", Lower(kind.v))
        detail_log == IF needs_detail
                      THEN DetailFetch(resource, sub_id, answers.detail) ELSE <<>>
        network_info == Enrichment(resource, answers.network, "network info",
                                   "network info", NetworkInfoFound)
        env_vars == get_environment_variables(resource, answers.env_vars)
        specific_config == Enrichment(resource, answers.config, "specific config",
                                      "specific config", SpecificConfigFound)
        with_network == IF Truthy(network_info.v)
                        THEN SetKey(resource, "networkInfo", network_info.v)
                        ELSE resource
        with_env == IF Truthy(env_vars.v)
                    THEN SetKey(with_network, "environmentVariables", env_vars.v)
                    ELSE with_network
        with_config == IF Truthy(specific_config.v)
                       THEN SetKey(with_env, "specificConfiguration", specific_config.v)
                       ELSE with_env
        properties == PropertiesQuery(resource, with_config, answers.properties)
    IN  IF ~Truthy(resource_id)
        THEN [record |-> <<resource>>,
              log |-> <<"Resource " \o Fmt(resource_name)
                        \o " missing 'id', skipping detailed enhancement.">>]
        ELSE IF ~Truthy(resource_type)
        THEN [record |-> <<resource>>,
              log |-> <<"Resource " \o Fmt(resource_name) \o " (" \o resource_id.v
                        \o ") missing 'type', skipping detailed enhancement.">>]
        ELSE IF kind_raises
        THEN [record |-> <<resource>>,
              log |-> <<"Error enhancing resource " \o Fmt(resource_name) \o " ("
                        \o resource_id.v
                        \o "): 'NoneType' object has no attribute 'lower'">>]
        ELSE [record |-> <<properties.v>>,
              log |-> detail_log \o network_info.log \o env_vars.log
                      \o specific_config.log \o properties.log]

\* rows of the Resource Graph answer besides fn1, sa1 and vm2: a web site
\* whose kind is null, a row without id, a dashboard, a scale set without
\* resourceGroup
site0 ==
    Dict(<< <<"id", Str("/s/rg1/site0")>>, <<"name", Str("site0")>>,
            <<"type", Str("microsoft.web/sites")>>, <<"resourceGroup", Str("rg1")>>,
            <<"kind", Null>>, <<"location", Str("eastus")>>, <<"tags", Null>>,
            <<"properties", EmptyDict>> >>)
row0 ==
    Dict(<< <<"id", Null>>, <<"name", Str("row0")>>,
            <<"type", Str("microsoft.web/sites")>>, <<"resourceGroup", Str("rg1")>> >>)
board1 == Listed("/s/rg1/board1", "board1", "microsoft.portal/dashboards", "rg1", "")
vmss0 ==
    Dict(<< <<"id", Str("/s/vmss0")>>, <<"name", Str("vmss0")>>,
            <<"type", Str("microsoft.compute/virtualmachinescalesets")>>,
            <<"resourceGroup", Str("")>>, <<"kind", Str("")>> >>)

\* a web site of rg1 whose properties name its hosting plan
site1 ==
    Dict(<< <<"id", Str("/s/rg1/site1")>>, <<"name", Str("site1")>>,
            <<"type", Str("microsoft.web/sites")>>, <<"resourceGroup", Str("rg1")>>,
            <<"kind", Str("app")>>, <<"location", Str("eastus")>>, <<"tags", Null>>,
            <<"properties", Dict(<< <<"serverFarmId", Str("/s/rg1/plan1")>> >>)>> >>)

\* the rows the basic listing's query answers
ListingScenarios ==
    << <<vm2, fn1>>, <<sa1, site0>>, <<row0, vm2>>, <<board1, sa1>>, <<vmss0>>, <<>>,
       <<site1>> >>

\* the detail fetch of line 1092 or 1099 is made for this resource
FetchesDetail(resource) ==
    /\ Truthy(GetOrNone(resource, "id"))
    /\ GetOrNone(resource, "type").v \in {"microsoft.compute/virtualmachines",
                                           "microsoft.compute/virtualmachinescalesets"}
    /\ Truthy(Get(resource, "resourceGroup", Str("")))
    /\ Truthy(Get(resource, "name", Str("")))

\* what the environment can answer during one turn of the loop
Answers(resource) ==
    [detail : IF FetchesDetail(resource) THEN AttemptPatterns ELSE {<<"ok">>},
     network : {"none", "failed", "found"},
     env_vars : {"failed", "found"}, config : {"failed", "found"},
     properties : {"ok", "noprops", "nodata", "baddata"}]

\* the state at the call of list_resources
InitList ==
    /\ \E i \in 1..Len(ListingScenarios) : resources = ListingScenarios[i]
    /\ enhanced_mode \in BOOLEAN
    /\ subscription_id \in SubscriptionIds
    /\ pc = "list"
    /\ idx = 0
    /\ basic_resources = <<>>
    /\ enhanced_resources = <<>>
    /\ confirmed_dependencies = EmptyMapping
    /\ potential_dependencies = EmptyMapping
    /\ _failed_operations_log = <<>>
    /\ run = 1
    /\ first_result = [variant |-> "none", order |-> <<>>,
                       confirmed |-> EmptyMapping, potential |-> EmptyMapping]
    /\ lookups = {}
    /\ resource_groups = <<>>
    /\ include_potential_deps = FALSE
    /\ main_data = Null
    /\ data_file = ""
    /\ data_from_output = Null
    /\ html = [nodes |-> <<>>, links |-> <<>>]
    /\ mermaid = <<>>
    /\ NotInTools

\* lines 1051-1061: the basic listing; in basic mode it is what
\* list_resources returns, in enhanced mode the loop starts
ListBasic ==
    /\ pc = "list"
    /\ basic_resources' = list_resources_basic(resources)
    /\ pc' = IF enhanced_mode /\ Len(basic_resources') > 0 THEN "enhance" ELSE "listed"
    /\ UNCHANGED <<resources, idx, confirmed_dependencies, potential_dependencies,
                   _failed_operations_log, run, first_result, lookups, main_vars,
                   enhanced_mode, enhanced_resources, tool_vars>>

\* lines 1063-1151: one turn of the loop; after the last one list_resources
\* returns enhanced_resources
EnhanceResource ==
    /\ pc = "enhance"
    /\ \E answers \in Answers(basic_resources[idx + 1]) :
          LET turn == EnhanceOne(basic_resources[idx + 1], subscription_id, answers)
          IN  /\ enhanced_resources' = enhanced_resources \o turn.record
              /\ _failed_operations_log' = _failed_operations_log \o turn.log
    /\ idx' = idx + 1
    /\ pc' = IF idx' = Len(basic_resources) THEN "listed" ELSE "enhance"
    /\ UNCHANGED <<resources, confirmed_dependencies, potential_dependencies, run,
                   first_result, lookups, main_vars, enhanced_mode, basic_resources,
                   tool_vars>>

NextList ==
    \/ ListBasic
    \/ EnhanceResource

SpecList == InitList /\ [][NextList]_vars

-----------------------------------------------------------------------------
(* The id-keyed maps of the companion tools: generate_report of             *)
(* ard/azure_resource_discovery.py, lines 355-433, over what                *)
(* `az resource list` answered, and generate_dependency_report of           *)
(* arg/generate_dependency_report.py, lines 60-72, over the resources of    *)
(* the data file.  Both receive a list in which an id can occur twice.      *)

\* the longest list of descriptors
MaxListed == 3

\* a descriptor as `az resource list` prints it and as the data file holds it
Descriptor(id, name, type, location) ==
    Dict(<< <<"id", Str(id)>>, <<"name", Str(name)>>, <<"type", type>>,
            <<"resourceGroup", Str("rg1")>>, <<"location", Str(location)>> >>)

\* a storage account, the same id listed with another location, the same id
\* listed with a null type, and a virtual machine
store_east ==
    Descriptor("/s/rg1/sa1", "sa1", Str("Microsoft.Storage/storageAccounts"), "eastus")
store_west ==
    Descriptor("/s/rg1/sa1", "sa1", Str("Microsoft.Storage/storageAccounts"), "westus")
store_null == Descriptor("/s/rg1/sa1", "sa1", Null, "eastus")
vm_east ==
    Descriptor("/s/rg1/vm1", "vm1", Str("Microsoft.Compute/virtualMachines"), "eastus")

Descriptors == {store_east, store_west, store_null, vm_east}

\* the lists of one to MaxListed descriptors
Listings == UNION {[1..n -> Descriptors] : n \in 1..MaxListed}

\* get_resource_details, azure_resource_discovery.py lines 67-93, raises:
\* get_network_information evaluates resource.get('type', '').lower() at
\* line 97, before its try
DetailsRaise(resource) == ~IsStr(Get(resource, "type", Str("")))

\* what `az vm show --show-details` contributes, lines 111-116
VmNetworkInfo ==
    Dict(<< <<"privateIps", List(<<Str("10.0.0.4")>>)>>, <<"publicIps", EmptyList>>,
            <<"fqdns", EmptyList>> >>)

\* what get_resource_details can return for a descriptor with a str type:
\* {} when `az resource show` failed (run_az_command, lines 46-48), the
\* resource as `az resource show` prints it, and, for a virtual machine, that
\* with the networkInfo of lines 80-81
DetailsOf(resource) ==
    LET shown == Dict(Append(resource.v, <<"properties", EmptyDict>>))
    IN  {EmptyDict, shown}
        \cup (IF Contains("microsoft.compute/virtualmachines",
                          Lower(Get(resource, "type", Str("")).v))
              THEN {Dict(Append(shown.v, <<"networkInfo", VmNetworkInfo>>))}
              ELSE {})

\* a variant of AddIfAbsent: the value is assigned whether the key is there
\* or not
AddAlways(d, key, value) ==
    IF \E i \in 1..Len(d.v) : d.v[i][1] = key
    THEN Dict([i \in 1..Len(d.v) |-> IF d.v[i][1] = key THEN <<key, value>> ELSE d.v[i]])
    ELSE Dict(Append(d.v, <<key, value>>))

\* azure_resource_discovery.py lines 380-383: an id that is already a key of
\* detailed_resources keeps its value
AddIfAbsent(d, key, value) ==
    IF HasKey(d, key) THEN d ELSE SetKey(d, key, value)

\* {r['id']: r for r in resources}, generate_dependency_report.py line 72,
\* over the first k resources
RECURSIVE LookupOf(_, _)
LookupOf(listing, k) ==
    IF k = 0 THEN EmptyDict
    ELSE SetKey(LookupOf(listing, k - 1), GetOrNone(listing[k], "id").v, listing[k])

\* the state at the call of generate_report (after discover_all_resources)
\* or of generate_dependency_report (after load_data)
InitReport ==
    /\ resources \in Listings
    /\ pc \in {"report", "dependency_report"}
    /\ idx = 0
    /\ confirmed_dependencies = EmptyMapping
    /\ potential_dependencies = EmptyMapping
    /\ _failed_operations_log = <<>>
    /\ run = 1
    /\ first_result = [variant |-> "none", order |-> <<>>,
                       confirmed |-> EmptyMapping, potential |-> EmptyMapping]
    /\ lookups = {}
    /\ NotInMain
    /\ NotListing
    /\ NotInTools

\* azure_resource_discovery.py lines 374-386: one turn of generate_report's
\* loop
ProcessResource ==
    /\ pc = "report"
    /\ LET resource == resources[idx + 1]
           resource_id == Get(resource, "id", Str("")).v
       IN  IF DetailsRaise(resource)
           THEN detailed_resources' = SetKey(detailed_resources, resource_id, resource)
           ELSE \E detailed_info \in DetailsOf(resource) :
                   detailed_resources' =
                       AddIfAbsent(detailed_resources, resource_id, detailed_info)
    /\ idx' = idx + 1
    /\ pc' = IF idx' = Len(resources) THEN "reported" ELSE "report"
    /\ UNCHANGED <<resources, confirmed_dependencies, potential_dependencies,
                   _failed_operations_log, run, first_result, lookups, main_vars,
                   list_vars, resource_lookup, retry_vars, transform_vars,
                   paging_vars,
                   builder_vars>>

\* generate_dependency_report.py line 72: the resource lookup
CreateResourceLookup ==
    /\ pc = "dependency_report"
    /\ resource_lookup' = LookupOf(resources, Len(resources))
    /\ pc' = "looked_up"
    /\ UNCHANGED <<resources, idx, confirmed_dependencies, potential_dependencies,
                   _failed_operations_log, run, first_result, lookups, main_vars,
                   list_vars, detailed_resources, retry_vars, transform_vars,
                   paging_vars,
                   builder_vars>>

NextReport ==
    \/ ProcessResource
    \/ CreateResourceLookup

SpecReport == InitReport /\ [][NextReport]_vars

-----------------------------------------------------------------------------
(* The calls that receive the catalog: get_resource_dependencies on its     *)
(* own, and main from the saved snapshot to the diagrams                     *)

NextCalls ==
    \/ Next
    \/ NextMain

SpecCalls == (Init \/ InitMain) /\ [][NextCalls]_vars

-----------------------------------------------------------------------------
(* One call of a function wrapped by retry_with_backoff, lines 46-86, as a  *)
(* state machine: the wrapped function is run_az_command_list, lines        *)
(* 146-185, and how each attempt ends is the environment's choice.          *)

\* the largest max_retries
MaxRetries == 3

\* the command of the call and the subscription it is run for
RetryCommand == <<"az", "account", "show">>
RetrySubscription == "12345678-abcd-ef00"

\* what json.loads gives for the output of a successful attempt, as text
Answered == {"{}", "{'name': 'sub'}"}

\* f"{delay:.2f}" for a delay that is a whole number of seconds
DelayFmt(d) == StrOfInt(d) \o ".00"

\* line 65: the stderr output names a throttling error
Throttling(stderr_output) ==
    \/ Contains("RateLimiting", stderr_output)
    \/ Contains("TooManyRequests", stderr_output)
    \/ Contains("Throttled", stderr_output)

\* how an attempt that ends as `outcome` says is seen by the wrapper: the
\* class of what func raised ("value" when it returned), str(e) or the
\* value, and e.stderr
AttemptEnds(outcome, value) ==
    LET full_command == RetryCommand \o <<"--subscription", RetrySubscription>>
    IN  CASE outcome = "ok" -> [kind |-> "value", v |-> value, stderr |-> ""]
          [] outcome = "unexpected" ->
               [kind |-> "FileNotFoundError", v |-> ErrorText(outcome, full_command),
                stderr |-> ""]
          [] OTHER ->
               [kind |-> "CalledProcessError", v |-> ErrorText(outcome, full_command),
                stderr |-> Stderr(outcome)]

\* what func and the wrapper log for an attempt that raised, lines 66, 74, 77
\* and 178, before the wrapper decides whether to go on
AttemptLog(result, i, max, d) ==
    LET full_command == RetryCommand \o <<"--subscription", RetrySubscription>>
        heading == "Attempt " \o StrOfInt(i + 1) \o "/" \o StrOfInt(max + 1)
    IN  IF result.kind = "CalledProcessError"
        THEN <<"Error executing command " \o JoinWords(full_command) \o ": "
               \o result.stderr>>
             \o (IF Throttling(result.stderr)
                 THEN <<heading \o ": Command failed due to throttling. Retrying in "
                        \o DelayFmt(d) \o "s. Command: " \o Repr(RetryCommand)>>
                 ELSE <<"Non retryable error encountered, Error: " \o result.v>>)
        ELSE <<heading \o ": An unexpected error occurred. Retrying in "
               \o DelayFmt(d) \o "s. Error: " \o result.v>>

\* lines 71 and 82: the entry logged when the last attempt has failed
GivingUp(result) ==
    IF result.kind = "CalledProcessError"
    THEN "Max retries reached for command: " \o Repr(RetryCommand) \o ". Giving up."
    ELSE "Max retries reached for unexpected error. Giving up."

\* a variant of MayRetry: the last attempt is retried as well
MayRetryAlways(i, max) == i <= max

\* lines 67 and 78: `if i < max_retries`
MayRetry(i, max) == i < max

\* the state at the call of the wrapper, after `delay = initial_delay`
InitRetry ==
    /\ max_retries \in 0..MaxRetries
    /\ initial_delay \in {1, 2}
    /\ backoff_factor \in {1, 2}
    /\ attempt = 0
    /\ delay = initial_delay
    /\ slept = <<>>
    /\ invoked = 0
    /\ attempt_result = [kind |-> "none", v |-> "", stderr |-> ""]
    /\ wrapper_result = [kind |-> "none", v |-> "", stderr |-> ""]
    /\ pc = "wrapper"
    /\ resources = <<>>
    /\ idx = 0
    /\ confirmed_dependencies = EmptyMapping
    /\ potential_dependencies = EmptyMapping
    /\ _failed_operations_log = <<>>
    /\ run = 1
    /\ first_result = [variant |-> "none", order |-> <<>>,
                       confirmed |-> EmptyMapping, potential |-> EmptyMapping]
    /\ lookups = {}
    /\ NotInMain
    /\ NotListing
    /\ NotReporting
    /\ NotTransforming
    /\ NotPaging
    /\ NotBuilding

\* lines 59-83: one turn of the wrapper's loop
CallFunc ==
    /\ pc = "wrapper"
    /\ attempt <= max_retries
    /\ invoked' = invoked + 1
    /\ \E outcome \in {"ok", "throttled", "failed", "unexpected"}, value \in Answered :
          /\ attempt_result' = AttemptEnds(outcome, value)
          /\ IF attempt_result'.kind = "value"
             THEN /\ wrapper_result' = attempt_result'
                  /\ pc' = "returned"
                  /\ UNCHANGED <<_failed_operations_log, attempt, delay, slept>>
             ELSE IF /\ attempt_result'.kind = "CalledProcessError"
                     /\ ~Throttling(attempt_result'.stderr)
             THEN /\ _failed_operations_log' = _failed_operations_log
                        \o AttemptLog(attempt_result', attempt, max_retries, delay)
                  /\ wrapper_result' = attempt_result'
                  /\ pc' = "raised"
                  /\ UNCHANGED <<attempt, delay, slept>>
             ELSE IF MayRetry(attempt, max_retries)
             THEN /\ _failed_operations_log' = _failed_operations_log
                        \o AttemptLog(attempt_result', attempt, max_retries, delay)
                  /\ slept' = Append(slept, delay)
                  /\ delay' = delay * backoff_factor
                  /\ attempt' = attempt + 1
                  /\ pc' = "wrapper"
                  /\ UNCHANGED wrapper_result
             ELSE /\ _failed_operations_log' = _failed_operations_log
                        \o AttemptLog(attempt_result', attempt, max_retries, delay)
                        \o <<GivingUp(attempt_result')>>
                  /\ wrapper_result' = attempt_result'
                  /\ pc' = "raised"
                  /\ UNCHANGED <<attempt, delay, slept>>
    /\ UNCHANGED <<resources, idx, confirmed_dependencies, potential_dependencies,
                   run, first_result, lookups, main_vars, list_vars, report_vars,
                   max_retries, initial_delay, backoff_factor, transform_vars,
                   paging_vars, builder_vars>>

NextRetry == CallFunc

SpecRetry == InitRetry /\ [][NextRetry]_vars

\* the scheduler runs the calling thread: a turn of the loop that can be
\* taken is taken
SpecRetryFair == SpecRetry /\ WF_vars(NextRetry)

-----------------------------------------------------------------------------
(* transform.py: the catalog document turned into the nested dict            *)
(* {subscription: {resourceGroup: {type: {name: resource}}}}.                *)

\* the most resources in the document
MaxTransformed == 2

\* re.search(r'/subscriptions/([^/]+)', resource_id), lines 19-22: the
\* segment after the first segment 'subscriptions' that has a '/' before it
\* and a non-empty segment after it, None when there is none
extract_subscription_from_resource_id(resource_id) ==
    LET parts == Split(resource_id)
        hits == {i \in 2..(Len(parts) - 1) :
                    parts[i] = "subscriptions" /\ parts[i + 1] # ""}
    IN  IF hits = {} THEN Null
        ELSE Str(parts[(CHOOSE i \in hits : \A j \in hits : i <= j) + 1])

\* a variant of DelKey that leaves the dict as it is
KeepKey(d, key) == d

\* del resource[key] after the test `key in resource`, lines 47-54
DelKey(d, key) == Dict(SelectSeq(d.v, LAMBDA pair : pair[1] # key))

\* d[key], with {} put there first when the key is missing (lines 64-71)
SubDict(d, key) == Get(d, key, EmptyDict)

\* transformed[subscription_id][resource_group][resource_type][resource_name]
\* = resource, lines 64-74
Store(d, sub, resource_group, resource_type, resource_name, resource) ==
    LET groups == SubDict(d, sub)
        types == SubDict(groups, resource_group)
        names == SubDict(types, resource_type)
    IN  SetKey(d, sub,
            SetKey(groups, resource_group,
                SetKey(types, resource_type,
                    SetKey(names, resource_name, resource))))

\* a resource of the document
Entry(id, name, type, resourceGroup, location) ==
    Dict(<< <<"id", Str(id)>>, <<"name", Str(name)>>, <<"type", Str(type)>>,
            <<"resourceGroup", Str(resourceGroup)>>, <<"location", Str(location)>> >>)

\* the resources a document is made of: two of subscription sub1, one of
\* sub2, one whose resourceGroup is empty and one that has no name
Entries ==
    {Entry("/subscriptions/sub1/resourceGroups/rg1/vm1", "vm1",
           "Microsoft.Compute/virtualMachines", "rg1", "eastus"),
     Entry("/subscriptions/sub1/resourceGroups/rg1/vm1", "vm1",
           "microsoft.compute/virtualmachines", "rg1", "westus"),
     Entry("/subscriptions/sub2/resourceGroups/rg2/sa1", "sa1",
           "Microsoft.Storage/storageAccounts", "rg2", "eastus"),
     Entry("/subscriptions/sub1/kv1", "kv1", "Microsoft.KeyVault/vaults", "", "eastus"),
     Dict(<< <<"id", Str("/subscriptions/sub1/resourceGroups/rg1/x")>>,
             <<"type", Str("Microsoft.Web/sites")>>,
             <<"resourceGroup", Str("rg1")>> >>)}

RECURSIVE EntryLists(_)
\* the lists of n entries
EntryLists(n) ==
    IF n = 0 THEN {<<>>}
    ELSE {Append(list, e) : list \in EntryLists(n - 1), e \in Entries}

\* the documents main loads (lines 117-131 let through a dict with a list
\* under 'resources'): with a subscription_id, with an empty one, without
Documents ==
    {Dict(top \o << <<"resources", List(list)>> >>) :
        top \in {<<>>, << <<"subscription_id", Str("")>> >>,
                 << <<"subscription_id", Str("sub9")>> >>},
        list \in UNION {EntryLists(n) : n \in 0..MaxTransformed}}

\* the engine's variables when get_resource_dependencies is not running
NotAnalyzing ==
    /\ resources = <<>>
    /\ confirmed_dependencies = EmptyMapping
    /\ potential_dependencies = EmptyMapping
    /\ _failed_operations_log = <<>>
    /\ run = 1
    /\ first_result = [variant |-> "none", order |-> <<>>,
                       confirmed |-> EmptyMapping, potential |-> EmptyMapping]
    /\ lookups = {}

\* the state at the call of transform_resources(input_data), line 134
InitTransform ==
    /\ input_file \in Documents
    /\ input_data = input_file
    /\ transformed = EmptyDict
    /\ raised = ""
    /\ pc = "transform"
    /\ idx = 0
    /\ NotAnalyzing
    /\ NotInMain
    /\ NotListing
    /\ NotReporting
    /\ NotRetrying
    /\ NotPaging
    /\ NotBuilding

\* lines 41-76, one turn of the loop over input_data['resources'], and the
\* return of line 78 after the last one.  The local subscription_id is the
\* top-level value all along: line 57, the one place that assigns it, names
\* resource_id, which no line defines (lines 44-46 are comments), so that
\* evaluating the argument raises NameError before the call is made.
TransformResource ==
    /\ pc = "transform"
    /\ LET listed == Get(input_data, "resources", EmptyList).v
           top_subscription_id == GetOrNone(input_data, "subscription_id")
       IN  IF idx = Len(listed)
           THEN /\ pc' = "transformed"
                /\ UNCHANGED <<idx, input_data, transformed, raised>>
           ELSE LET resource == listed[idx + 1]
                    resource_group == Get(resource, "resourceGroup", Str(""))
                    resource_type == Lower(Get(resource, "type", Str("")).v)
                    resource_name == Get(resource, "name", Str(""))
                    stripped == DelKey(DelKey(DelKey(resource, "resourceGroup"),
                                              "type"), "name")
                IN  /\ input_data' = SetKey(input_data, "resources",
                            List([listed EXCEPT ![idx + 1] = stripped]))
                    /\ IF ~Truthy(top_subscription_id)
                       THEN /\ raised' = "NameError: name 'resource_id' is not defined"
                            /\ pc' = "raised"
                            /\ UNCHANGED <<idx, transformed>>
                       ELSE /\ idx' = idx + 1
                            /\ transformed' =
                                 IF \/ ~Truthy(resource_group) \/ resource_type = ""
                                    \/ ~Truthy(resource_name)
                                 THEN transformed
                                 ELSE Store(transformed, top_subscription_id.v,
                                            resource_group.v, resource_type,
                                            resource_name.v, stripped)
                            /\ UNCHANGED <<pc, raised>>
    /\ UNCHANGED <<resources, confirmed_dependencies, potential_dependencies,
                   _failed_operations_log, run, first_result, lookups, main_vars,
                   list_vars, report_vars, retry_vars, input_file, paging_vars,
                   builder_vars>>

NextTransform == TransformResource

SpecTransform == InitTransform /\ [][NextTransform]_vars

-----------------------------------------------------------------------------
(* run_az_command: a Resource Graph query fetched page by page.              *)

\* the most pages one call fetches
MaxPages == 3

\* the command handed to run_az_command
PagingCommand == "az graph query -q Resources"

\* two rows of the Resource Graph
RowA == Dict(<< <<"id", Str("a")>> >>)
RowB == Dict(<< <<"id", Str("b")>> >>)

\* _run_az_command raised after the wrapper of line 88 gave up: az exited
\* with this on stderr
Failing == [t |-> "raise", v |-> "ResourceNotFound"]

\* what _run_az_command (lines 90-117) can give for one page: an exception,
\* None for no output, the raw text of an output that is not JSON, a JSON
\* array, or a JSON object with or without data and skipToken
PageAnswers ==
    {Failing, Null, Str("Please run 'az login' to setup account."), List(<<RowA>>),
     EmptyDict,
     Dict(<< <<"skipToken", Str("t2")>> >>),
     Dict(<< <<"data", Null>>, <<"skipToken", Str("t2")>> >>)}
    \cup {Dict(<< <<"data", List(rows)>> >> \o token) :
            rows \in {<<>>, <<RowA>>, <<RowB, RowA>>},
            token \in {<<>>, << <<"skipToken", Null>> >>,
                       << <<"skipToken", Str("t1")>> >>,
                       << <<"skipToken", Str("t2")>> >>}}

\* the loop goes on to another page after this answer
Continues(response) ==
    /\ IsDict(response)
    /\ IsList(Get(response, "data", EmptyList))
    /\ Truthy(GetOrNone(response, "skipToken"))

RECURSIVE SpacedOut(_)
\* ' '.join(command) for a command that is a str, line 113
SpacedOut(s) ==
    IF Len(s) <= 1 THEN s
    ELSE SubSeq(s, 1, 1) \o " " \o SpacedOut(SubSeq(s, 2, Len(s)))

\* what lines 113 and 74 log when az exits with an error that is not a
\* throttling one: the wrapper does not retry it
FailingLog(command, stderr) ==
    <<"Error executing command " \o SpacedOut(command) \o ": " \o stderr,
      "Non retryable error encountered, Error: Command '" \o command
      \o "' returned non-zero exit status 1.">>

\* lines 126-128: the command of the page that follows `token`
PageCommand(token) ==
    PagingCommand \o " --first 1000"
    \o (IF Truthy(token) THEN " --skip-token \"" \o token.v \o "\"" ELSE "")

\* the state at the call of run_az_command, after lines 121-123
InitPaging ==
    /\ all_results = <<>>
    /\ skip_token = Null
    /\ pages = <<>>
    /\ raised = ""
    /\ pc = "paging"
    /\ idx = 0
    /\ NotAnalyzing
    /\ NotInMain
    /\ NotListing
    /\ NotReporting
    /\ NotRetrying
    /\ input_file = Null
    /\ input_data = Null
    /\ transformed = EmptyDict
    /\ NotBuilding

\* lines 125-144, one turn of `while True` and the return that follows the
\* break: the page is asked for, and answered by the environment
FetchPage ==
    /\ pc = "paging"
    /\ \E response \in PageAnswers :
          LET command == PageCommand(skip_token)
              data == Get(response, "data", EmptyList)
          IN  /\ Len(pages) + 1 = MaxPages => ~Continues(response)
              /\ pages' = Append(pages, [command |-> command, response |-> response])
              /\ CASE response = Failing ->
                        /\ _failed_operations_log' =
                               _failed_operations_log \o FailingLog(command, response.v)
                        /\ pc' = "returned"
                        /\ UNCHANGED <<all_results, skip_token, raised>>
                   [] response # Failing /\ ~Truthy(response) ->
                        /\ pc' = "returned"
                        /\ UNCHANGED <<all_results, skip_token, raised,
                                       _failed_operations_log>>
                   [] Truthy(response) /\ ~IsDict(response) ->
                        /\ raised' = "AttributeError: '" \o response.t
                                     \o "' object has no attribute 'get'"
                        /\ pc' = "raised"
                        /\ UNCHANGED <<all_results, skip_token, _failed_operations_log>>
                   [] Truthy(response) /\ IsDict(response) /\ ~IsList(data) ->
                        /\ raised' = "TypeError: 'NoneType' object is not iterable"
                        /\ pc' = "raised"
                        /\ UNCHANGED <<all_results, skip_token, _failed_operations_log>>
                   [] OTHER ->
                        /\ all_results' = all_results \o data.v
                        /\ skip_token' = GetOrNone(response, "skipToken")
                        /\ pc' = IF Truthy(skip_token') THEN "paging" ELSE "returned"
                        /\ UNCHANGED <<raised, _failed_operations_log>>
    /\ UNCHANGED <<resources, idx, confirmed_dependencies, potential_dependencies,
                   run, first_result, lookups, main_vars, list_vars, report_vars,
                   retry_vars, input_file, input_data, transformed, builder_vars>>

NextPaging == FetchPage

SpecPaging == InitPaging /\ [][NextPaging]_vars

-----------------------------------------------------------------------------
(* build_dependency_graph.py: AzureResourceGraphBuilder.extract_dependencies *)
(* over self.resources, an entry [rid, name, type, data] per resource id.    *)

\* the most resources of a discovery file
MaxBuilt == 2

\* s.startswith(prefix)
StartsWith(s, prefix) == Len(s) >= Len(prefix) /\ SubSeq(s, 1, Len(prefix)) = prefix

\* text[i:].startswith(s), i from 1
At(text, i, s) == i + Len(s) - 1 <= Len(text) /\ SubSeq(text, i, i + Len(s) - 1) = s

RECURSIVE FindHosts(_, _, _)
\* re.findall(r'https://([^.]+)<suffix>', text) from position `from` on, for
\* a pattern whose group is followed by one of `suffixes` (each begins with
\* the escaped dot): the group stops at the first '.', the matches are taken
\* from left to right and do not overlap
FindHosts(text, from, suffixes) ==
    LET Dot(i) == CHOOSE j \in (i + 8)..(Len(text) + 1) :
                     /\ j = Len(text) + 1 \/ SubSeq(text, j, j) = "."
                     /\ \A k \in (i + 8)..(j - 1) : SubSeq(text, k, k) # "."
        Ends(i) == {Dot(i) + Len(s) : s \in {t \in suffixes : At(text, Dot(i), t)}}
        starts == {i \in from..(Len(text) - 7) :
                      /\ At(text, i, "https://")
                      /\ Dot(i) > i + 8
                      /\ Ends(i) # {}}
    IN  IF starts = {} THEN {}
        ELSE LET first == CHOOSE i \in starts : \A j \in starts : i <= j
             IN  {SubSeq(text, first + 8, Dot(first) - 1)}
                 \cup FindHosts(text, CHOOSE e \in Ends(first) : TRUE, suffixes)

\* the properties of a resource's data
PropsOf(resource_data) == Get(resource_data, "properties", EmptyDict)

RECURSIVE _find_resource_id_references(_)
\* lines 81-92: the values under the four keys, anywhere in the data, that
\* are a str beginning with '/subscriptions/'
_find_resource_id_references(data) ==
    CASE IsDict(data) ->
            UNION {IF data.v[i][1] \in {"managedEnvironmentId", "environmentId",
                                        "targetResourceUri", "metricResourceUri"}
                   THEN (IF /\ IsStr(data.v[i][2])
                            /\ StartsWith(data.v[i][2].v, "/subscriptions/")
                         THEN {data.v[i][2].v} ELSE {})
                   ELSE _find_resource_id_references(data.v[i][2])
                   : i \in 1..Len(data.v)}
      [] IsList(data) ->
            UNION {_find_resource_id_references(data.v[i]) : i \in 1..Len(data.v)}
      [] OTHER -> {}

\* lines 94-99
_find_managed_environment_deps(resource_data) ==
    IF HasKey(PropsOf(resource_data), "managedEnvironmentId")
    THEN {GetOrNone(PropsOf(resource_data), "managedEnvironmentId").v}
    ELSE {}

\* lines 101-107
_find_metric_alert_deps(resource_data) ==
    LET scopes == Get(PropsOf(resource_data), "scopes", EmptyList).v
    IN  {scopes[i].v : i \in {j \in 1..Len(scopes) :
                                 StartsWith(scopes[j].v, "/subscriptions/")}}

\* lines 109-123
_find_autoscale_deps(resource_data) ==
    LET props == PropsOf(resource_data)
        profiles == Get(props, "profiles", EmptyList).v
        Rules(profile) == Get(profile, "rules", EmptyList).v
        Trigger(rule) == Get(rule, "metricTrigger", EmptyDict)
    IN  (IF HasKey(props, "targetResourceUri")
         THEN {GetOrNone(props, "targetResourceUri").v} ELSE {})
        \cup UNION {UNION {IF HasKey(Trigger(Rules(profiles[p])[r]), "metricResourceUri")
                           THEN {GetOrNone(Trigger(Rules(profiles[p])[r]),
                                           "metricResourceUri").v}
                           ELSE {}
                           : r \in 1..Len(Rules(profiles[p]))}
                    : p \in 1..Len(profiles)}

\* the endings of the five patterns of lines 131-137
azure_patterns ==
    {".servicebus.windows.net", ".vault.azure.net", ".blob.core.windows.net",
     ".azurecr.io", ".postgres.database.azure.com"}

\* lines 125-145: every resource whose name is a host named in the dumped
\* data, or has that host's name inside it
_find_service_endpoint_deps(all, resource_data) ==
    LET matches == FindHosts(Dumps(resource_data), 1, azure_patterns)
    IN  {all[k].rid : k \in {j \in 1..Len(all) :
            \E match \in matches :
                all[j].name = match \/ Contains(match, all[j].name)}}

\* image.split('.azurecr.io/')[0] for an image that has the separator
BeforeRegistrySuffix(image) ==
    SubSeq(image, 1,
           (CHOOSE i \in 1..Len(image) :
               /\ At(image, i, ".azurecr.io/")
               /\ \A j \in 1..(i - 1) : ~At(image, j, ".azurecr.io/")) - 1)

\* lines 147-161
_find_container_registry_deps(all, resource_data) ==
    LET containers ==
            Get(Get(PropsOf(resource_data), "template", EmptyDict),
                "containers", EmptyList).v
        images == {Get(containers[i], "image", Str("")).v : i \in 1..Len(containers)}
    IN  {all[k].rid : k \in {j \in 1..Len(all) :
            /\ all[j].type = "Microsoft.ContainerRegistry/registries"
            /\ \E image \in images :
                  /\ Contains(".azurecr.io/", image)
                  /\ Contains(BeforeRegistrySuffix(image), all[j].name)}}

\* the endings of storage_pattern, line 176
storage_pattern ==
    {".blob.core.windows.net", ".file.core.windows.net", ".queue.core.windows.net",
     ".table.core.windows.net"}

\* lines 163-182.  The `continue` of line 172 goes on with the loop over
\* primaryEndpoints, which does nothing else: the scan of lines 175-182 runs
\* for a storage account as for any other resource.
_find_storage_deps(all, resource_id, resource_data) ==
    LET matches == FindHosts(Dumps(resource_data), 1, storage_pattern)
    IN  {all[k].rid : k \in {j \in 1..Len(all) :
            /\ all[j].type = "Microsoft.Storage/storageAccounts"
            /\ \E match \in matches : Contains(match, all[j].name)}}

\* _find_dependencies, lines 56-79: what the seven scans add to
\* self.dependencies[resource_id]
_find_dependencies(all, resource_id, resource_data) ==
    _find_resource_id_references(resource_data)
    \cup _find_managed_environment_deps(resource_data)
    \cup _find_metric_alert_deps(resource_data)
    \cup _find_autoscale_deps(resource_data)
    \cup _find_service_endpoint_deps(all, resource_data)
    \cup _find_container_registry_deps(all, resource_data)
    \cup _find_storage_deps(all, resource_id, resource_data)

\* an entry of self.resources as extract_resources makes it (lines 37-49)
Built(name, type, properties) ==
    [rid |-> "/subscriptions/s/" \o name, name |-> name, type |-> type,
     data |-> Dict(<< <<"id", Str("/subscriptions/s/" \o name)>>,
                      <<"location", Str("eastus")>>,
                      <<"properties", Dict(properties)>> >>)]

\* the resources of a discovery file: a storage account with its endpoints,
\* a web site that names the account's blob endpoint, a key vault with its
\* URI, a container app, its environment, its registry, a metric alert and
\* an autoscale setting
BuiltResources ==
    {Built("stor1", "Microsoft.Storage/storageAccounts",
           << <<"primaryEndpoints",
                Dict(<< <<"blob", Str("https://stor1.blob.core.windows.net/")>>,
                        <<"file", Str("https://stor1.file.core.windows.net/")>> >>)>> >>),
     Built("app1", "Microsoft.Web/sites",
           << <<"backupUrl", Str("https://stor1.blob.core.windows.net/backups")>> >>),
     Built("kv1", "Microsoft.KeyVault/vaults",
           << <<"vaultUri", Str("https://kv1.vault.azure.net/")>> >>),
     Built("ca1", "Microsoft.App/containerApps",
           << <<"managedEnvironmentId", Str("/subscriptions/s/env1")>>,
              <<"template",
                Dict(<< <<"containers",
                          List(<<Dict(<< <<"image", Str("acr1.azurecr.io/api:1")>> >>)>>)>> >>)>> >>),
     Built("env1", "Microsoft.App/managedEnvironments", <<>>),
     Built("acr1", "Microsoft.ContainerRegistry/registries",
           << <<"loginServer", Str("acr1.azurecr.io")>> >>),
     Built("alert1", "Microsoft.Insights/metricAlerts",
           << <<"scopes", List(<<Str("/subscriptions/s/app1")>>)>> >>),
     Built("scale1", "Microsoft.Insights/autoscaleSettings",
           << <<"targetResourceUri", Str("/subscriptions/s/app1")>>,
              <<"profiles",
                List(<<Dict(<< <<"rules",
                    List(<<Dict(<< <<"metricTrigger",
                        Dict(<< <<"metricResourceUri",
                                  Str("/subscriptions/s/stor1")>> >>)>> >>)>>)>> >>)>>)>> >>)}

\* the state after extract_resources, at the call of extract_dependencies:
\* self.resources has one entry per resource id
InitBuilder ==
    /\ \E n \in 0..MaxBuilt :
          /\ self_resources \in [1..n -> BuiltResources]
          /\ \A i, j \in 1..n : i # j => self_resources[i] # self_resources[j]
    /\ dependencies = EmptyMapping
    /\ pc = "extract"
    /\ idx = 0
    /\ NotAnalyzing
    /\ NotInMain
    /\ NotListing
    /\ NotReporting
    /\ NotRetrying
    /\ NotTransforming
    /\ NotPaging

\* extract_dependencies, lines 51-54: one turn of the loop over
\* self.resources, and the return after the last one.  self.dependencies is
\* a defaultdict: a resource gets an entry when a scan adds to its set.
FindDependencies ==
    /\ pc = "extract"
    /\ IF idx = Len(self_resources)
       THEN /\ pc' = "extracted"
            /\ UNCHANGED <<idx, dependencies>>
       ELSE LET resource_id == self_resources[idx + 1].rid
                found == _find_dependencies(self_resources, resource_id,
                                            self_resources[idx + 1].data)
            IN  /\ dependencies' =
                      IF found = {} THEN dependencies
                      ELSE (resource_id :> found) @@ dependencies
                /\ idx' = idx + 1
                /\ UNCHANGED pc
    /\ UNCHANGED <<resources, confirmed_dependencies, potential_dependencies,
                   _failed_operations_log, run, first_result, lookups, main_vars,
                   list_vars, report_vars, retry_vars, transform_vars, paging_vars,
                   self_resources>>

NextBuilder == FindDependencies

SpecBuilder == InitBuilder /\ [][NextBuilder]_vars

-----------------------------------------------------------------------------
(* Properties *)

\* get_resource_dependencies has returned its two mappings
Returned == pc = "done"

\* the positions of the catalog
Positions == 1..Len(resources)

\* the ids that are a non-empty str / that are not None
NonEmptyIds ==
    {IdOf(resources[k]).v : k \in {j \in Positions : IsStr(IdOf(resources[j]))
                                                     /\ IdOf(resources[j]).v # ""}}
NonNullIds ==
    {IdOf(resources[k]).v : k \in {j \in Positions : IdOf(resources[j]).t # "null"}}

\* resource k has an id that is a key of the mappings
HasEntry(k) == IsStr(IdOf(resources[k])) /\ IdOf(resources[k]).v # ""

\* the sets of resource k once the call has returned
ConfirmedOf(k) == confirmed_dependencies[IdOf(resources[k]).v]
PotentialOf(k) == potential_dependencies[IdOf(resources[k]).v]

\* C1 (as claimed): from the end of the initialization on, the keys of both
\* mappings are exactly the ids of the resources whose id is not None, and
\* every set is there, empty, before the first rule runs.
C1_KeysAreNonNullIds ==
    pc \in {"analyze", "implicit", "done"} =>
        /\ DOMAIN confirmed_dependencies = NonNullIds
        /\ DOMAIN potential_dependencies = NonNullIds

\* C1 (amended): from the end of the initialization on, the keys of both
\* mappings are exactly the ids of the resources whose id is neither None nor
\* the empty string, and every set is there, empty, before the first rule
\* runs.
C1_KeysAreNonEmptyIds ==
    /\ pc \in {"analyze", "implicit", "done"} =>
          /\ DOMAIN confirmed_dependencies = NonEmptyIds
          /\ DOMAIN potential_dependencies = NonEmptyIds
    /\ (pc = "analyze" /\ idx = 1) =>
          \A id \in NonEmptyIds : /\ confirmed_dependencies[id] = {}
                                  /\ potential_dependencies[id] = {}

\* a call has returned for a catalog that holds a resource with an id and
\* one whose id is None or empty
C1_Witness ==
    /\ Returned
    /\ \E k \in Positions : HasEntry(k)
    /\ \E k \in Positions : ~HasEntry(k)
    /\ DOMAIN confirmed_dependencies # {}

\* C2: after the call no resource id is a member of its own confirmed or
\* potential set.
C2_NoSelfLoop ==
    Returned => \A id \in DOMAIN confirmed_dependencies :
                    /\ id \notin confirmed_dependencies[id]
                    /\ id \notin potential_dependencies[id]

\* C3 (as claimed): for distinct resources A and B whose ids are not None,
\* if B's id occurs in the serialization of A's combined blob then B's id is
\* in confirmed[A.id] after the call, whatever A's other fields are.
C3_ContainmentAnyResource ==
    Returned =>
        \A a, b \in Positions :
            (/\ a # b
             /\ IdOf(resources[a]).t # "null" /\ IdOf(resources[b]).t # "null"
             /\ Contains(IdOf(resources[b]).v, AllResourceData(resources[a])))
            => /\ IdOf(resources[a]).v \in DOMAIN confirmed_dependencies
               /\ IdOf(resources[b]).v \in ConfirmedOf(a)

\* C3 (amended): for resources A and B with non-empty, different ids, A
\* having a non-empty type, if B's id occurs in the serialization of A's
\* combined blob then B's id is in confirmed[A.id] after the call.
C3_ContainmentTypedResource ==
    Returned =>
        \A a, b \in Positions :
            (/\ HasEntry(a) /\ HasEntry(b)
             /\ IdOf(resources[a]).v # IdOf(resources[b]).v
             /\ Truthy(TypeOf(resources[a]))
             /\ Contains(IdOf(resources[b]).v, AllResourceData(resources[a])))
            => IdOf(resources[b]).v \in ConfirmedOf(a)

\* a call has returned for a catalog in which a typed resource's blob holds
\* the id of another resource
C3_Witness ==
    /\ Returned
    /\ \E a, b \in Positions :
          /\ HasEntry(a) /\ HasEntry(b)
          /\ IdOf(resources[a]).v # IdOf(resources[b]).v
          /\ Truthy(TypeOf(resources[a]))
          /\ Contains(IdOf(resources[b]).v, AllResourceData(resources[a]))
          /\ IdOf(resources[b]).v \in ConfirmedOf(a)

\* C4: get_resource_dependencies never raises while it analyzes a resource
\* whose properties are a plain string.
C4_StringPropertiesDoNotRaise ==
    (pc = "raised" /\ idx \in Positions) => ~IsStr(Properties(resources[idx]))

\* the look-ups of one registry all got the same answer
LookupsAgree == \A x, y \in lookups : x[1] = y[1] => x[2] = y[2]

\* the second call returned what the first call returned
SameAsFirst ==
    /\ confirmed_dependencies = first_result.confirmed
    /\ potential_dependencies = first_result.potential

\* C5 (as claimed): a second call on the same resources, in any order,
\* returns mappings equal to those of the first call.
C5_SecondCallEqual ==
    (Returned /\ run = 2 /\ first_result.variant = "reordered") => SameAsFirst

\* C5 (amended): a second call on the same resources, in any order, returns
\* mappings equal to those of the first call provided every registry
\* look-up of the two calls got the same answer for the same registry.
C5_SecondCallEqualWhenLookupsAgree ==
    (Returned /\ run = 2 /\ first_result.variant = "reordered" /\ LookupsAgree)
        => SameAsFirst

\* a second call has returned for a catalog listed in another order, with
\* edges in both mappings
C5_Witness ==
    /\ Returned /\ run = 2 /\ first_result.variant = "reordered"
    /\ \E i \in Positions : first_result.order[i] # i
    /\ \E id \in DOMAIN confirmed_dependencies : confirmed_dependencies[id] # {}
    /\ \E id \in DOMAIN potential_dependencies : potential_dependencies[id] # {}

\* the ids of the catalog's resources
CatalogIds ==
    {Member(IdOf(resources[k])) : k \in {j \in Positions : HasKey(resources[j], "id")}}

\* the targets the type rules copy from a resource's own descriptor without
\* looking them up in the catalog: managedEnvironmentId, serverFarmId,
\* network-interface ids, vnetResourceId, private-endpoint ids and the
\* load-balancer ids cut out of pool ids
CopiedReferences(r) ==
    LET properties == Properties(r)
        entries(d, key) ==
            IF IsDict(d) /\ IsList(Get(d, key, EmptyList))
            THEN {Get(d, key, EmptyList).v[i] : i \in DictItems(Get(d, key, EmptyList))}
            ELSE {}
        sub(d, key) == IF IsDict(d) THEN Get(d, key, EmptyDict) ELSE EmptyDict
        ipConfigs == UNION {entries(n, "ipConfigurations") :
                        n \in entries(sub(sub(properties, "virtualMachineProfile"),
                                          "networkProfile"),
                                      "networkInterfaceConfigurations")}
        pools == UNION {entries(c, "loadBalancerBackendAddressPools")
                        \cup entries(c, "loadBalancerInboundNatPools") : c \in ipConfigs}
        docs == (IF IsDict(properties)
                 THEN {GetOrNone(properties, "managedEnvironmentId"),
                       GetOrNone(properties, "serverFarmId")}
                 ELSE {})
                \cup {GetOrNone(n, "id") : n \in entries(sub(properties, "networkProfile"),
                                                         "networkInterfaces")}
                \cup {GetOrNone(v, "vnetResourceId") : v \in entries(NetworkInfo(r), "vnetIntegration")}
                \cup {GetOrNone(sub(e, "privateEndpoint"), "id")
                        : e \in entries(NetworkInfo(r), "privateEndpoints")}
    IN  {Member(d) : d \in docs}
        \cup {Join(SubSeq(Split(GetOrNone(p, "id").v), 1, 9))
                : p \in {q \in pools : IsStr(GetOrNone(q, "id"))}}

\* C6 (as claimed): after the call every member of a confirmed or potential
\* set is the id of a resource of the catalog.
C6_TargetsInCatalog ==
    Returned => \A id \in DOMAIN confirmed_dependencies :
                    /\ confirmed_dependencies[id] \subseteq CatalogIds
                    /\ potential_dependencies[id] \subseteq CatalogIds

\* C6 (amended): after the call every member of a potential set is the id
\* of a resource of the catalog, and every member of a confirmed set is the
\* id of a resource of the catalog or a reference copied as it is from the
\* source's own descriptor (managedEnvironmentId, serverFarmId, a
\* network-interface id, vnetResourceId, a private-endpoint id, a
\* load-balancer id cut out of a pool id), which need not be in the catalog.
C6_TargetsInCatalogOrCopied ==
    Returned =>
        \A k \in Positions : HasEntry(k) =>
            /\ PotentialOf(k) \subseteq CatalogIds
            /\ ConfirmedOf(k) \subseteq
                  CatalogIds \cup UNION {CopiedReferences(resources[j]) :
                        j \in {i \in Positions : IdOf(resources[i]) = IdOf(resources[k])}}

\* a call has returned with a confirmed target that is in the catalog and a
\* confirmed target that is not
C6_Witness ==
    /\ Returned
    /\ \E k \in Positions : HasEntry(k) /\ ConfirmedOf(k) \cap CatalogIds # {}
    /\ \E k \in Positions : HasEntry(k) /\ ConfirmedOf(k) \ CatalogIds # {}

\* C7: a second call on the same catalog with type strings written in
\* another letter case returns mappings equal to those of the first call.
C7_TypeCaseInsensitive ==
    (Returned /\ run = 2 /\ first_result.variant = "recased") => SameAsFirst

\* a container app / a managed environment / a web site / a hosting plan /
\* a SQL-type resource
IsContainerApp(r) == TypeIs(r, "microsoft.app/containerapps")
IsManagedEnvironment(r) == TypeIs(r, "microsoft.app/managedenvironments")
IsWebSite(r) == TypeIs(r, "microsoft.web/sites")
IsServerFarm(r) == TypeIs(r, "microsoft.web/serverfarms")
IsSql(r) == TypeIn(r, {"microsoft.sql/servers", "microsoft.sql/servers/databases"})

\* resource k carries the reference key |-> the id of resource j in its
\* properties
RefersTo(k, key, j) ==
    /\ IsDict(Properties(resources[k]))
    /\ HasEntry(j)
    /\ GetOrNone(Properties(resources[k]), key) = IdOf(resources[j])

\* C8: after the call, a container app whose properties.managedEnvironmentId
\* is the id of a managed environment of the catalog has that id in its
\* confirmed set.
C8_ManagedEnvironmentConfirmed ==
    Returned =>
        \A a, e \in Positions :
            (/\ HasEntry(a) /\ IsContainerApp(resources[a])
             /\ IsManagedEnvironment(resources[e])
             /\ RefersTo(a, "managedEnvironmentId", e))
            => IdOf(resources[e]).v \in ConfirmedOf(a)

\* a call has returned for a container app whose only reference is the
\* managedEnvironmentId of an environment of the catalog
C8_Witness ==
    /\ Returned
    /\ \E a, e \in Positions :
          /\ HasEntry(a) /\ IsContainerApp(resources[a])
          /\ IsManagedEnvironment(resources[e])
          /\ RefersTo(a, "managedEnvironmentId", e)
          /\ Len(resources[a].v) = 4 /\ Len(Properties(resources[a]).v) = 1
          /\ ConfirmedOf(a) = {IdOf(resources[e]).v}

\* the catalog is one hosting plan p and one web site w whose only reference
\* is serverFarmId = p's id
PlanAndSite(p, w) ==
    /\ Len(resources) = 2 /\ p # w
    /\ HasEntry(p) /\ HasEntry(w)
    /\ IsServerFarm(resources[p]) /\ IsWebSite(resources[w])
    /\ RefersTo(w, "serverFarmId", p)
    /\ Len(Properties(resources[w]).v) = 1
    /\ ~HasKey(resources[p], "properties")
    /\ \A key \in {"environmentVariables", "networkInfo", "specificConfiguration"} :
          ~HasKey(resources[w], key) /\ ~HasKey(resources[p], key)

\* C9: for a catalog of one hosting plan P and one web site W whose only
\* reference is serverFarmId = P.id, the call returns confirmed[W.id] = {P.id}
\* and confirmed[P.id] = {}.
C9_PlanAndSite ==
    Returned =>
        \A p, w \in Positions :
            PlanAndSite(p, w) => /\ ConfirmedOf(w) = {IdOf(resources[p]).v}
                                 /\ ConfirmedOf(p) = {}

\* a call has returned for the catalog [plan1, app1]
C9_Witness ==
    /\ Returned
    /\ PlanAndSite(1, 2)
    /\ ConfirmedOf(2) = {"/s/plan1"}

\* w is a web site whose only setting is one app setting, a str
OneAppSetting(w) ==
    /\ HasEntry(w) /\ IsWebSite(resources[w])
    /\ IsDict(EnvVars(resources[w]))
    /\ Len(EnvVars(resources[w]).v) = 1
    /\ IsDict(Get(EnvVars(resources[w]), "appSettings", Null))
    /\ Len(Get(EnvVars(resources[w]), "appSettings", Null).v) = 1
    /\ IsStr(Get(EnvVars(resources[w]), "appSettings", Null).v[1][2])
    /\ ~Truthy(NetworkInfo(resources[w]))

\* the value of that setting
TheSetting(w) == Get(EnvVars(resources[w]), "appSettings", Null).v[1][2].v

\* x is a storage account or a Cosmos account with a name and an id
StorageOrCosmos(x) ==
    /\ TypeIn(resources[x], {"microsoft.storage/storageaccounts",
                             "microsoft.documentdb/databaseaccounts"})
    /\ IsStr(NameOf(resources[x]))
    /\ HasEntry(x)

\* the str values of the app settings of resource w
AppSettingValues(w) ==
    IF IsDict(EnvVars(resources[w]))
       /\ IsDict(Get(EnvVars(resources[w]), "appSettings", Null))
    THEN StrValues(Get(EnvVars(resources[w]), "appSettings", Null))
    ELSE {}

\* the SQL half of C10: for a web site W with an app setting that holds
\* N.database.windows.net, N the name (longer than 3 characters) of a
\* SQL-type resource S, S.id is in potential[W.id]
SqlHostFound ==
    \A w, q \in Positions :
        (/\ HasEntry(w) /\ IsWebSite(resources[w])
         /\ IsSql(resources[q]) /\ HasEntry(q)
         /\ IsStr(NameOf(resources[q])) /\ Len(NameOf(resources[q]).v) > 3
         /\ \E value \in AppSettingValues(w) :
               Contains(NameOf(resources[q]).v \o ".database.windows.net", value))
        => IdOf(resources[q]).v \in PotentialOf(w)

\* C10 (as claimed): for a web site W with an app setting that holds
\* N.database.windows.net, N the name (longer than 3 characters) of a
\* SQL-type resource S, S.id is in potential[W.id] after the call, and no
\* storage account or Cosmos account whose name does not occur in the value
\* is put into potential[W.id] by that setting.
C10_SqlHostOnlyNamedResources ==
    Returned =>
        /\ SqlHostFound
        /\ \A w, x \in Positions :
              (/\ OneAppSetting(w) /\ StorageOrCosmos(x)
               /\ ~Contains(NameOf(resources[x]).v, TheSetting(w)))
              => IdOf(resources[x]).v \notin PotentialOf(w)

\* C10 (amended): as claimed, except that the storage accounts and Cosmos
\* accounts kept out of potential[W.id] are those whose name occurs in the
\* value neither as it is nor once hyphens are removed from both the name
\* and the value.
C10_SqlHostOnlyNamedResourcesModuloHyphens ==
    Returned =>
        /\ SqlHostFound
        /\ \A w, x \in Positions :
              (/\ OneAppSetting(w) /\ StorageOrCosmos(x)
               /\ ~Contains(NameOf(resources[x]).v, TheSetting(w))
               /\ ~Contains(StripHyphens(NameOf(resources[x]).v),
                            StripHyphens(TheSetting(w))))
              => IdOf(resources[x]).v \notin PotentialOf(w)

\* a call has returned for a web site with the SQL host setting, the SQL
\* server it names and a storage account of another name
C10_Witness ==
    /\ Returned
    /\ \E w, q, x \in Positions :
          /\ OneAppSetting(w)
          /\ IsSql(resources[q]) /\ HasEntry(q)
          /\ Contains(NameOf(resources[q]).v \o ".database.windows.net", TheSetting(w))
          /\ IdOf(resources[q]).v \in PotentialOf(w)
          /\ StorageOrCosmos(x)
          /\ IdOf(resources[x]).v \notin PotentialOf(w)

\* resource k lacks an id or lacks a type
LacksIdOrType(k) == ~Truthy(IdOf(resources[k])) \/ ~Truthy(TypeOf(resources[k]))

\* C11: for a catalog that holds resources lacking an id or a type the call
\* does not raise, and once it has returned such a resource has no outgoing
\* edge in either mapping.
C11_IncompleteResourcesSkipped ==
    (\E k \in Positions : LacksIdOrType(k)) =>
        /\ pc # "raised"
        /\ Returned =>
              \A k \in Positions : (LacksIdOrType(k) /\ HasEntry(k)) =>
                  ConfirmedOf(k) = {} /\ PotentialOf(k) = {}

\* document d is a dict that holds key with a value that is not of kind
Surprise(d, key, kind) == IsDict(d) /\ HasKey(d, key) /\ GetOrNone(d, key).t # kind

\* the dict under key of d, or an empty dict
Sub(d, key) ==
    IF IsDict(d) /\ IsDict(Get(d, key, EmptyDict)) THEN Get(d, key, EmptyDict)
    ELSE EmptyDict

\* the items of the list under key of d
Items(d, key) ==
    IF IsDict(d) /\ IsList(Get(d, key, EmptyList))
    THEN {Get(d, key, EmptyList).v[i] : i \in 1..Len(Get(d, key, EmptyList).v)}
    ELSE {}

\* a nested field of resource r that a rule expects to be a list, a mapping
\* or a string has another type
SchemaSurprise(r) ==
    LET properties == Properties(r)
        configuration == Sub(properties, "configuration")
    IN  \/ Surprise(EnvVars(r), "appSettings", "dict")
        \/ Surprise(EnvVars(r), "connectionStrings", "dict")
        \/ Surprise(configuration, "registries", "list")
        \/ Surprise(configuration, "secrets", "list")
        \/ \E secret \in Items(configuration, "secrets") : Surprise(secret, "name", "str")
        \/ Surprise(properties, "networkProfile", "dict")
        \/ Surprise(properties, "virtualMachineProfile", "dict")
        \/ Surprise(properties, "siteConfig", "dict")
        \/ Surprise(NetworkInfo(r), "vnetIntegration", "list")
        \/ \E i \in 1..Len(Sub(EnvVars(r), "appSettings").v) :
              ~IsStr(Sub(EnvVars(r), "appSettings").v[i][2])

\* C12: get_resource_dependencies never raises while it analyzes a resource
\* with a nested field of an unexpected type, and once it has returned the
\* mappings hold a set for every resource id.
C12_SchemaSurpriseTolerated ==
    /\ (pc = "raised" /\ idx \in Positions) => ~SchemaSurprise(resources[idx])
    /\ Returned => DOMAIN confirmed_dependencies = NonEmptyIds

\* a registry look-up failed: the call raised, returned nothing, or returned
\* a malformed response
Failed(answer) == answer.kind \in {"error", "nodata", "baddata"}

\* the registry servers resource r declares
DeclaredServers(r) ==
    {Get(registry, "server", Str("")) :
        registry \in {x \in Items(Sub(Properties(r), "configuration"), "registries") :
                        IsDict(x)}}

\* the log entries that report a failed look-up of the registry acr_id
LookupFailures(acr_id) ==
    {"Error retrieving ACR login server for " \o acr_id,
     "ACR query returned no data for " \o acr_id,
     "ACR query returned unexpected data format for " \o acr_id}

\* a is a container app with nothing but declared registries, q a registry
\* whose id is not in a's blob
AppAndRegistry(a, q) ==
    /\ HasEntry(a) /\ IsContainerApp(resources[a])
    /\ IsDict(Properties(resources[a]))
    /\ Len(Properties(resources[a]).v) = 1
    /\ DeclaredServers(resources[a]) # {}
    /\ HasEntry(q) /\ TypeIs(resources[q], "microsoft.containerregistry/registries")
    /\ ~Contains(IdOf(resources[q]).v, AllResourceData(resources[a]))

\* C13: every failed registry look-up is logged, the call never raises at a
\* resource because of the answers its look-ups got, and once the call has
\* returned a registry is in the confirmed set of a container app that only
\* declares registries only if a look-up of that registry answered with a
\* login server the app declares.
C13_RegistryLookupFailure ==
    /\ \A l \in lookups : Failed(l[2]) =>
          \E i \in 1..Len(_failed_operations_log) :
              _failed_operations_log[i] \in LookupFailures(l[1])
    /\ (pc = "raised" /\ idx \in Positions) =>
          AnalyzeOne(resources, resources[idx],
                     [c \in CallsMade(resources, resources[idx]) |->
                        Answer("ok", Str("other.azurecr.io"))]).err
    /\ Returned =>
          \A a, q \in Positions :
              (AppAndRegistry(a, q) /\ IdOf(resources[q]).v \in ConfirmedOf(a)) =>
                  \E l \in lookups :
                      /\ l[1] = IdOf(resources[q]).v
                      /\ l[2].kind = "ok"
                      /\ \E b \in Positions :
                            /\ IdOf(resources[b]) = IdOf(resources[a])
                            /\ \E server \in DeclaredServers(resources[b]) :
                                  SameValue(l[2].loginServer, server)

\* a call has returned after a failed look-up of a registry that a
\* container app declares: the failure is in the log and the registry is not
\* in the app's confirmed set
C13_Witness ==
    /\ Returned
    /\ \E a, q \in Positions :
          /\ AppAndRegistry(a, q)
          /\ \A l \in lookups : l[1] = IdOf(resources[q]).v /\ Failed(l[2])
          /\ lookups # {}
          /\ Len(_failed_operations_log) > 0
          /\ IdOf(resources[q]).v \notin ConfirmedOf(a)

\* the values the generic scan of resource r looks at: the str values of
\* appSettings and connectionStrings and the str or list values of
\* networkInfo
ScannedValues(r) ==
    StrValues(Sub(EnvVars(r), "appSettings"))
    \cup StrValues(Sub(EnvVars(r), "connectionStrings"))
    \cup {ValueStr(Sub(r, "networkInfo").v[i][2]) :
            i \in {j \in 1..Len(Sub(r, "networkInfo").v) :
                     Sub(r, "networkInfo").v[j][2].t \in {"str", "list"}}}

\* the targets C14 gives the generic scan of resource a: the other
\* resources with a name longer than 3 characters that occurs in a value,
\* as it is or once hyphens are removed from both
ScanTargets(a) ==
    {IdOf(resources[b]).v : b \in
        {k \in Positions :
            /\ HasEntry(k) /\ IdOf(resources[k]) # IdOf(resources[a])
            /\ IsStr(NameOf(resources[k])) /\ Len(NameOf(resources[k]).v) > 3
            /\ \E value \in ScannedValues(resources[a]) :
                  \/ Contains(NameOf(resources[k]).v, value)
                  \/ Contains(StripHyphens(NameOf(resources[k]).v), StripHyphens(value))}}

\* resource a gets potential targets from the generic scan only: it has an
\* id and its type has neither a rule nor an implicit pair
ScanOnly(a) ==
    /\ HasEntry(a)
    /\ TypeIs(resources[a], "microsoft.network/applicationgateways")

\* C14: once the call has returned, the potential set of a resource that
\* gets targets from the generic scan only holds exactly the other resources
\* whose name is longer than 3 characters and occurs, as it is or with
\* hyphens removed from both, in a value of its appSettings,
\* connectionStrings or networkInfo.
C14_ScanThresholdEverywhere ==
    Returned => \A a \in Positions : ScanOnly(a) => PotentialOf(a) = ScanTargets(a)

\* d is a dashboard or a container-app managed environment with an id
ImplicitSource(d) ==
    /\ HasEntry(d)
    /\ TypeIn(resources[d], {"microsoft.portal/dashboards",
                             "microsoft.app/managedenvironments"})

\* i is an insights component
IsInsights(i) == TypeIs(resources[i], "microsoft.insights/components")

\* C15: once the call has returned, the id of every insights component of
\* the catalog is in the potential set of every dashboard and of every
\* container-app managed environment that has an id.
C15_ImplicitPairs ==
    Returned =>
        \A d, i \in Positions :
            (ImplicitSource(d) /\ IsInsights(i))
            => Member(IdOf(resources[i])) \in PotentialOf(d)

\* a call has returned for a dashboard, a managed environment and an
\* insights component that no property refers to
C15_Witness ==
    /\ Returned
    /\ \E d, e, i \in Positions :
          /\ HasEntry(d) /\ TypeIs(resources[d], "microsoft.portal/dashboards")
          /\ HasEntry(e) /\ IsManagedEnvironment(resources[e])
          /\ IsInsights(i) /\ HasEntry(i)
          /\ ~HasKey(resources[d], "properties") /\ ~HasKey(resources[e], "properties")
          /\ PotentialOf(d) = {IdOf(resources[i]).v}
          /\ PotentialOf(e) = {IdOf(resources[i]).v}

\* the ip configurations of scale set r
IpConfigurations(r) ==
    UNION {Items(n, "ipConfigurations") :
             n \in Items(Sub(Sub(Properties(r), "virtualMachineProfile"), "networkProfile"),
                         "networkInterfaceConfigurations")}

\* the ids of the backend pools and NAT pools of scale set r
PoolIds(r) ==
    {GetOrNone(pool, "id").v : pool \in
        {x \in UNION {Items(c, "loadBalancerBackendAddressPools")
                      \cup Items(c, "loadBalancerInboundNatPools") : c \in IpConfigurations(r)} :
            IsDict(x) /\ IsStr(GetOrNone(x, "id"))}}

\* the subnet references of scale set r
SubnetIds(r) ==
    {GetOrNone(Sub(c, "subnet"), "id").v :
        c \in {x \in IpConfigurations(r) : IsStr(GetOrNone(Sub(x, "subnet"), "id"))}}

\* the positions of the slashes of s
Slashes(s) == {i \in 1..Len(s) : SubSeq(s, i, i) = "/"}

\* the proper prefixes of s that end in front of a slash
Ancestors(s) == {SubSeq(s, 1, i - 1) : i \in Slashes(s) \ {1}}

\* s is /subscriptions/S/resourceGroups/G/providers/Microsoft.Network/
\* loadBalancers/L/<poolKind>/P
IsPoolPath(s) ==
    /\ Cardinality(Slashes(s)) = 10
    /\ SubSeq(s, 1, 15) = "/subscriptions/"
    /\ Contains("/resourceGroups/", s)
    /\ Contains("/providers/Microsoft.Network/loadBalancers/", s)

\* the path of the load balancer of pool path s: s up to its ninth slash
LoadBalancerPath(s) ==
    CHOOSE t \in Ancestors(s) : Cardinality(Slashes(t)) = 8

\* C16: once the call has returned, the confirmed set of a scale set holds,
\* for every pool id of the load-balancer pool form, the path cut after the
\* load-balancer name and no other part of the pool path, and the id of
\* every virtual network of the catalog whose id occurs in one of its subnet
\* references.
C16_ScaleSetTargets ==
    Returned =>
        \A v \in Positions :
            (HasEntry(v) /\ TypeIs(resources[v], "microsoft.compute/virtualmachinescalesets"))
            => /\ \A pool_id \in PoolIds(resources[v]) : IsPoolPath(pool_id) =>
                     (ConfirmedOf(v) \cap (Ancestors(pool_id) \cup {pool_id})) \ CatalogIds
                        = {LoadBalancerPath(pool_id)} \ CatalogIds
                     /\ LoadBalancerPath(pool_id) \in ConfirmedOf(v)
               /\ \A subnet_id \in SubnetIds(resources[v]) :
                     \A n \in Positions :
                        (/\ HasEntry(n)
                         /\ TypeIs(resources[n], "microsoft.network/virtualnetworks")
                         /\ Contains(IdOf(resources[n]).v, subnet_id))
                        => IdOf(resources[n]).v \in ConfirmedOf(v)

\* a call has returned for a scale set with a backend pool, a NAT pool and a
\* subnet of a virtual network of the catalog
C16_Witness ==
    /\ Returned
    /\ \E v, n \in Positions :
          /\ HasEntry(v) /\ TypeIs(resources[v], "microsoft.compute/virtualmachinescalesets")
          /\ \E pool_id \in PoolIds(resources[v]) :
                IsPoolPath(pool_id) /\ Contains("/backendAddressPools/", pool_id)
          /\ \E pool_id \in PoolIds(resources[v]) :
                IsPoolPath(pool_id) /\ Contains("/inboundNatPools/", pool_id)
          /\ TypeIs(resources[n], "microsoft.network/virtualnetworks")
          /\ \E subnet_id \in SubnetIds(resources[v]) :
                Contains(IdOf(resources[n]).v, subnet_id)
          /\ ConfirmedOf(v) =
                {IdOf(resources[n]).v,
                 "/subscriptions/S/resourceGroups/G/providers/Microsoft.Network/loadBalancers/lb1",
                 "/subscriptions/S/resourceGroups/G/providers/Microsoft.Network/loadBalancers/lb2"}

\* main has rendered both diagrams from the loaded snapshot
Rendered == pc = "md" /\ Len(mermaid) > 0 /\ Len(html.nodes) > 0

\* the pairs <<source id, target id>> of a loaded dependency mapping
PairsOf(mapping) == {Edges(mapping)[i] : i \in 1..Len(Edges(mapping))}

\* the Mermaid node ids given to the ids of the catalog and of the groups
MermaidIdMap ==
    MermaidResources(resource_groups, ByType(resources, ordered_types(resources)),
                     Len(resources)).id_map

\* the diagram text has this line
HasLine(line) == \E i \in 1..Len(mermaid) : mermaid[i] = line

\* the ids that have a node in the HTML diagram, and their node indices
HtmlIds == {html.nodes[i].id : i \in 1..Len(html.nodes)}
HtmlIndex(id) ==
    (CHOOSE i \in 1..Len(html.nodes) :
        /\ html.nodes[i].id = id
        /\ \A j \in 1..Len(html.nodes) : html.nodes[j].id = id => j <= i) - 1

\* the HTML diagram has a link of this type from source id to target id
HasLink(source, target, type) ==
    \E i \in 1..Len(html.links) :
       /\ html.links[i].type = type
       /\ html.links[i].source = HtmlIndex(source)
       /\ html.links[i].target = HtmlIndex(target)

\* the pairs present in both loaded mappings whose two ids have nodes
ConfirmedAndPotential(ids) ==
    {p \in PairsOf(confirmed_dependencies) \cap PairsOf(potential_dependencies) :
        p[1] \in ids /\ p[2] \in ids}

\* C17: when a pair <<source, target>> is in both the confirmed and the
\* potential mapping and include_potential_deps is true, each diagram has the
\* confirmed edge for the pair (a solid line, a link of type "depends") and
\* no potential edge for it (no dotted line, no link of type "potential")
C17_ConfirmedSuppressesPotential ==
    (Rendered /\ include_potential_deps)
        => /\ \A p \in ConfirmedAndPotential(DOMAIN MermaidIdMap) :
                 /\ HasLine("    " \o MermaidIdMap[p[1]] \o " --> " \o MermaidIdMap[p[2]])
                 /\ ~HasLine("    " \o MermaidIdMap[p[1]] \o " -.-> " \o MermaidIdMap[p[2]])
           /\ \A p \in ConfirmedAndPotential(HtmlIds) :
                 /\ HasLink(p[1], p[2], "depends")
                 /\ ~HasLink(p[1], p[2], "potential")

\* the ids of the resources that got a node line in the Mermaid diagram:
\* those whose resourceGroup is the name of a resource group
DrawnResourceIds ==
    {GetOrNone(resources[k], "id").v :
        k \in {j \in 1..Len(resources) :
                  RgNodeId(resource_groups, MermaidIdMap, resources[j]) # ""}}

\* the dependency edge lines of the Mermaid diagram: the lines after the
\* heading of the confirmed dependencies, headings and blank lines apart
EdgeLines ==
    LET heading == CHOOSE i \in 1..Len(mermaid) :
                       mermaid[i] = "    %% Confirmed Dependencies"
    IN  {mermaid[i] : i \in (heading + 1)..Len(mermaid)}
        \ {"", "    %% Potential Dependencies"}

\* the edge lines of the pairs of a mapping whose two ids are drawn resources
LinesOfDrawn(mapping, arrow) ==
    {"    " \o MermaidIdMap[p[1]] \o arrow \o MermaidIdMap[p[2]] :
        p \in {q \in PairsOf(mapping) :
                  q[1] \in DrawnResourceIds /\ q[2] \in DrawnResourceIds}}

\* C18: every dependency edge line of the Mermaid diagram, solid or dotted,
\* joins the nodes of two resources that were drawn: a pair with an id outside
\* the catalog, or with the id of a resource skipped because its
\* resourceGroup names no resource group, has no edge line
C18_EdgesJoinDrawnResources ==
    Rendered
        => EdgeLines \subseteq
              (LinesOfDrawn(confirmed_dependencies, " --> ")
               \cup LinesOfDrawn(potential_dependencies, " -.-> "))

\* main has loaded the snapshot it saved
Loaded == data_from_output # Null

\* the targets a snapshot's mapping pairs with an id: none when the id is not
\* a key of the mapping
TargetsIn(snapshot, mapping, id) ==
    {p[2] : p \in {q \in PairsOf(GetOrNone(snapshot, mapping)) : q[1] = id}}

\* the loaded snapshot carries what was saved: the five entries main reads,
\* with the same subscription id, resources and resource groups and, for
\* every resource id, the same confirmed and potential targets
SameSnapshot ==
    /\ \A key \in SnapshotKeys : HasKey(data_from_output, key)
    /\ \A key \in {"subscription_id", "resources", "resource_groups"} :
          GetOrNone(data_from_output, key) = GetOrNone(main_data, key)
    /\ \A k \in 1..Len(GetOrNone(main_data, "resources").v) :
          \A mapping \in {"confirmed_dependencies", "potential_dependencies"} :
             LET id == GetOrNone(GetOrNone(main_data, "resources").v[k], "id").v
             IN  TargetsIn(data_from_output, mapping, id)
                    = TargetsIn(main_data, mapping, id)

\* the two renderers applied to a snapshot
DiagramsOf(snapshot) ==
    LET sub_id == GetOrNone(snapshot, "subscription_id").v
        catalog == GetOrNone(snapshot, "resources").v
        groups == GetOrNone(snapshot, "resource_groups").v
        confirmed == GetOrNone(snapshot, "confirmed_dependencies")
        potential == GetOrNone(snapshot, "potential_dependencies")
    IN  <<generate_html_diagram(sub_id, catalog, groups, confirmed, potential,
                                include_potential_deps),
          generate_mermaid_diagram(sub_id, catalog, groups, confirmed, potential,
                                   include_potential_deps)>>

\* C19: the snapshot main saves and loads back carries the same subscription
\* id, resources, resource groups and dependency targets as the values that
\* were saved, and rendering it gives the diagrams those values give
C19_SnapshotRoundTrip ==
    Loaded => SameSnapshot /\ DiagramsOf(data_from_output) = DiagramsOf(main_data)

\* the log has an entry with this text in it
Logged(text) ==
    \E i \in 1..Len(_failed_operations_log) : Contains(text, _failed_operations_log[i])

\* the record has every field of the basic record, with the basic value
\* ('properties' may hold what the properties query answered)
KeepsBasicFields(record, basic) ==
    \A k \in 1..Len(basic.v) :
       /\ HasKey(record, basic.v[k][1])
       /\ basic.v[k][1] # "properties"
             => GetOrNone(record, basic.v[k][1]) = basic.v[k][2]

\* C20: in enhanced mode list_resources is never aborted and has, after each
\* turn of its loop and when it returns, one record per resource of the
\* basic listing handled so far, in the listing's order, each with at least
\* the basic fields, whatever the enrichment calls answered
C20_OneRecordPerResource ==
    enhanced_mode
        => /\ pc \in {"list", "enhance", "listed"}
           /\ Len(enhanced_resources) = idx
           /\ pc = "listed" => Len(enhanced_resources) = Len(basic_resources)
           /\ \A i \in 1..Len(enhanced_resources) :
                 KeepsBasicFields(enhanced_resources[i], basic_resources[i])

\* list_resources has returned in enhanced mode for a row without id and a
\* virtual machine whose detail fetch, network information, environment
\* variables, specific configuration and properties query all failed: both
\* are returned as the basic listing gave them
C20_Witness ==
    /\ pc = "listed" /\ enhanced_mode
    /\ basic_resources = <<row0, vm2>>
    /\ enhanced_resources = basic_resources
    /\ Logged("Resource row0 missing 'id'")
    /\ Logged("Max retries reached for command")
    /\ Logged("Error fetching detailed data for vm2")
    /\ Logged("Error getting network info for vm2")
    /\ Logged("Error getting environment variables for vm2")
    /\ Logged("Error getting specific config for vm2")
    /\ Logged("Properties query for /s/rg2/vm2 returned no data")

\* every key of the sub-document `key` of the basic record is in the
\* record's sub-document of that name, with the value it had
KeepsSubDocument(record, basic, key) ==
    LET old == GetOrNone(basic, key)
        new == GetOrNone(record, key)
    IN  IsDict(old)
            => /\ IsDict(new)
               /\ \A j \in 1..Len(old.v) :
                     /\ HasKey(new, old.v[j][1])
                     /\ GetOrNone(new, old.v[j][1]) = old.v[j][2]

\* the four sub-documents enrichment writes
SubDocuments ==
    {"properties", "networkInfo", "environmentVariables", "specificConfiguration"}

\* C21: every record list_resources returns in enhanced mode has every key
\* of the basic record, with its value, and every key that was inside the
\* basic record's properties, networkInfo, environmentVariables and
\* specificConfiguration, with its value: enrichment only adds keys
C21_EnrichmentKeepsKeys ==
    enhanced_mode
        => \A i \in 1..Len(enhanced_resources) :
              /\ \A k \in 1..Len(basic_resources[i].v) :
                    LET key == basic_resources[i].v[k][1]
                    IN  /\ HasKey(enhanced_resources[i], key)
                        /\ key \notin SubDocuments
                              => GetOrNone(enhanced_resources[i], key)
                                    = basic_resources[i].v[k][2]
              /\ \A key \in SubDocuments :
                    KeepsSubDocument(enhanced_resources[i], basic_resources[i], key)

\* the positions of the listing that hold a descriptor with this id
PositionsOf(id) ==
    {i \in 1..Len(resources) : GetOrNone(resources[i], "id").v = id}

\* the smallest and the largest of a non-empty set of positions
FirstOf(S) == CHOOSE i \in S : \A j \in S : i <= j
LastOf(S) == CHOOSE i \in S : \A j \in S : j <= i

\* what generate_report can record for a descriptor on its own
RecordsOf(resource) ==
    IF DetailsRaise(resource) THEN {resource} ELSE DetailsOf(resource)

\* the resource lookup of generate_dependency_report holds, for every id,
\* the last descriptor that has it
LookupKeepsLast ==
    pc = "looked_up"
        => \A i \in 1..Len(resources) :
              LET id == GetOrNone(resources[i], "id").v
              IN  GetOrNone(resource_lookup, id) = resources[LastOf(PositionsOf(id))]

\* C22 as stated: both id-keyed maps hold, for every id, what stems from the
\* last descriptor that has the id
C22_LastWriteWins ==
    /\ LookupKeepsLast
    /\ pc = "reported"
          => \A i \in 1..Len(resources) :
                LET id == GetOrNone(resources[i], "id").v
                IN  GetOrNone(detailed_resources, id)
                        \in RecordsOf(resources[LastOf(PositionsOf(id))])

\* C22: the resource lookup of generate_dependency_report holds, for every
\* id, the last descriptor that has it; detailed_resources of generate_report
\* holds the details of the first descriptor that has the id, unless
\* get_resource_details raised for a descriptor with the id, and then it
\* holds the last such descriptor itself
C22_FirstDetailsWin ==
    /\ LookupKeepsLast
    /\ pc = "reported"
          => \A i \in 1..Len(resources) :
                LET id == GetOrNone(resources[i], "id").v
                    raising == {p \in PositionsOf(id) : DetailsRaise(resources[p])}
                IN  IF raising # {}
                    THEN GetOrNone(detailed_resources, id) = resources[LastOf(raising)]
                    ELSE GetOrNone(detailed_resources, id)
                            \in DetailsOf(resources[FirstOf(PositionsOf(id))])

\* generate_report has processed the storage account listed twice, in
\* eastus and then in westus, and holds the details of the first
C22_Witness ==
    /\ pc = "reported"
    /\ resources = <<store_east, store_west>>
    /\ detailed_resources =
          Dict(<< <<"/s/rg1/sa1",
                    Dict(Append(store_east.v, <<"properties", EmptyDict>>))>> >>)

\* get_resource_dependencies is running
InEngine == pc \in {"init", "analyze", "implicit"}

\* C23: no step of get_resource_dependencies changes the list of resources it
\* was given, and the step of generate_mermaid_diagram changes neither the
\* list of resources, nor the list of resource groups, nor the two dependency
\* mappings it was given
C23_InputsUnchanged ==
    [][/\ InEngine => resources' = resources
       /\ pc = "html" => /\ resources' = resources
                         /\ resource_groups' = resource_groups
                         /\ confirmed_dependencies' = confirmed_dependencies
                         /\ potential_dependencies' = potential_dependencies]_vars

\* generate_mermaid_diagram has drawn a storage account, a function app and
\* an edge between two nodes, for a catalog in which the storage account is
\* listed before the function app (the diagram lists the function app first)
C23_Witness ==
    /\ pc = "md"
    /\ Len(resources) >= 2
    /\ GetOrNone(resources[1], "type").v = "microsoft.storage/storageaccounts"
    /\ GetOrNone(resources[2], "type").v = "microsoft.web/sites"
    /\ HasLine("    %% Sites Resources")
    /\ \E i \in 1..Len(mermaid) : Contains(" --> ", mermaid[i]) /\ ~Contains("[", mermaid[i])

\* the positions of the log entries about a missing id or a missing type
IdentityEntries ==
    {i \in 1..Len(_failed_operations_log) :
        \/ Contains("missing 'id'", _failed_operations_log[i])
        \/ Contains("missing 'type'", _failed_operations_log[i])}

\* C24: when get_resource_dependencies has returned, the log holds exactly
\* one entry about a missing id or type per resource that lacks an id or a
\* type, and none for the other resources
C24_LoggedOncePerResource ==
    Returned
        => Cardinality(IdentityEntries)
              = Cardinality({k \in Positions : LacksIdOrType(k)})

\* base to the power of n
RECURSIVE Pow(_, _)
Pow(base, n) == IF n = 0 THEN 1 ELSE base * Pow(base, n - 1)

\* the call of the wrapper has ended
Ended == pc \in {"returned", "raised"}

\* the latest attempt raised an error the wrapper retries
Retryable(result) ==
    \/ result.kind = "FileNotFoundError"
    \/ result.kind = "CalledProcessError" /\ Throttling(result.stderr)

\* what holds in every state of a call of the wrapper
RetrySafety ==
    /\ invoked <= max_retries + 1
    /\ pc = "returned" => /\ attempt_result.kind = "value"
                          /\ wrapper_result = attempt_result
    /\ pc = "raised" => /\ attempt_result.kind \notin {"value", "none"}
                        /\ wrapper_result = attempt_result
                        /\ Retryable(attempt_result) => invoked = max_retries + 1
    /\ slept = [k \in 1..Len(slept) |-> initial_delay * Pow(backoff_factor, k - 1)]
    /\ Len(slept) = IF Ended THEN invoked - 1 ELSE invoked

\* C25: func is invoked at most max_retries + 1 times; the call ends; it
\* returns what the first successful attempt returned or raises what the
\* last attempt raised, after max_retries + 1 attempts when that is a
\* throttling or an unexpected error; the k-th sleep lasts
\* initial_delay * backoff_factor^(k-1) and no sleep follows the last attempt
C25_RetryEnds == []RetrySafety /\ <>Ended

\* the wrapper, called with the defaults (3, 1.0, 2.0), has raised after four
\* throttled attempts and sleeps of 1, 2 and 4 seconds
C25_Witness ==
    /\ pc = "raised"
    /\ max_retries = 3 /\ initial_delay = 1 /\ backoff_factor = 2
    /\ invoked = 4
    /\ slept = <<1, 2, 4>>
    /\ Throttling(wrapper_result.stderr)
    /\ Logged("Max retries reached for command")

\* the record is a web site whose environment variables were recorded
WebSiteWithSettings(record) ==
    /\ Get(record, "type", Str("")).v = "microsoft.web/sites"
    /\ HasKey(record, "environmentVariables")

\* C26: of the web sites in the catalog list_resources builds, a site whose
\* kind does not contain 'functionapp' carries the appSettings and
\* connectionStrings that get_environment_variables found, and a site whose
\* kind contains 'functionapp' carries functionAppSettings, the key the
\* function-app rules of get_resource_dependencies read
C26_FunctionAppSettingsRecorded ==
    \A i \in 1..Len(enhanced_resources) :
        LET record == enhanced_resources[i]
            env_vars == EnvVars(record)
        IN  WebSiteWithSettings(record)
                => IF Contains("functionapp", Lower(Get(record, "kind", Str("")).v))
                   THEN HasKey(env_vars, "functionAppSettings")
                   ELSE /\ HasKey(env_vars, "appSettings")
                        /\ HasKey(env_vars, "connectionStrings")

\* the document names no subscription at its top level
NoTopSubscription == ~Truthy(GetOrNone(input_file, "subscription_id"))

\* the resource of the file has a resource group, a type and a name
Placeable(resource) ==
    /\ Truthy(Get(resource, "resourceGroup", Str("")))
    /\ Truthy(Get(resource, "type", Str("")))
    /\ Truthy(Get(resource, "name", Str("")))

\* the resource is under transformed[sub][resourceGroup][lower(type)], sub
\* being the subscription its id names
PlacedUnderOwnSubscription(resource) ==
    LET sub == extract_subscription_from_resource_id(Get(resource, "id", Str("")).v)
        types == SubDict(SubDict(transformed, sub.v),
                         Get(resource, "resourceGroup", Str("")).v)
    IN  /\ IsStr(sub)
        /\ HasKey(SubDict(types, Lower(Get(resource, "type", Str("")).v)),
                  Get(resource, "name", Str("")).v)

\* C27: on a document without a top-level subscription_id,
\* transform_resources does not raise, and when it has returned every
\* resource of the document that has a non-empty resourceGroup, type and
\* name is under transformed[sub][resourceGroup][lower(type)] for the
\* subscription sub that its id names
C27_SubscriptionFromResourceId ==
    NoTopSubscription
        => /\ pc # "raised"
           /\ pc = "transformed"
                => \A i \in 1..Len(Get(input_file, "resources", EmptyList).v) :
                      LET resource == Get(input_file, "resources", EmptyList).v[i]
                      IN  Placeable(resource) => PlacedUnderOwnSubscription(resource)

\* the rows of a page: its data array, nothing for a page that has none
RowsOf(response) ==
    IF IsDict(response) /\ IsList(Get(response, "data", EmptyList))
    THEN Get(response, "data", EmptyList).v
    ELSE <<>>

RECURSIVE RowsOfPages(_)
\* the data arrays of the pages, one after the other
RowsOfPages(fetched) ==
    IF fetched = <<>> THEN <<>>
    ELSE RowsOf(fetched[1].response) \o RowsOfPages(Tail(fetched))

\* the page ends the loop: it failed, it is empty, or it has no skipToken
LastPage(response) ==
    \/ response = Failing
    \/ ~IsDict(response)
    \/ ~Truthy(response)
    \/ ~Truthy(GetOrNone(response, "skipToken"))

\* C28: run_az_command never raises to its caller; each page after the first
\* is asked for with the skipToken of the page before it; no page is asked
\* for after a page that failed, was empty or had no skipToken; and what is
\* returned is the data arrays of the pages fetched, one after the other in
\* the order of the fetches
C28_PagesConcatenated ==
    /\ pc # "raised"
    /\ \A k \in 1..Len(pages) :
          /\ pages[k].command =
                PageCommand(IF k = 1 THEN Null
                            ELSE GetOrNone(pages[k - 1].response, "skipToken"))
          /\ k < Len(pages) => ~LastPage(pages[k].response)
    /\ pc = "paging" /\ pages # <<>> => ~LastPage(pages[Len(pages)].response)
    /\ pc = "returned" => all_results = RowsOfPages(pages)

\* C29: in the diagram generate_mermaid_diagram wrote, the node ids of two
\* different entries of id_map (resource groups and resources) differ, and
\* none of them is the subscription's node id A
C29_NodeIdsDistinct ==
    Rendered
        => \A x, y \in DOMAIN MermaidIdMap :
              /\ MermaidIdMap[x] # "A"
              /\ x # y => MermaidIdMap[x] # MermaidIdMap[y]

\* C30: no resource is in its own dependency set, whatever URLs of its own
\* its descriptor holds
C30_NoSelfDependency ==
    \A resource_id \in DOMAIN dependencies :
        resource_id \notin dependencies[resource_id]

====
